---- MODULE Spec2Model ----
(***************************************************************************)
(* Model of the Avail MyStop API client (custom_components/ha-myStop):     *)
(* api.py (AvailClient, URL and identifier validation, parsers) and the    *)
(* polling coordinators of sensor.py.                                      *)
(*                                                                         *)
(* Text is modelled as a sequence of tokens (a token is a run of           *)
(* characters that the code never looks inside), so that rstrip, endswith, *)
(* slicing and URL splitting are computed on the text itself.              *)
(* Python values are tagged records: None, bool, int, str, list, dict.     *)
(***************************************************************************)
EXTENDS Integers, Sequences, FiniteSets, TLC

\* ------------------------------------------------------------------------
\* Python values
\* ------------------------------------------------------------------------
PyNone == [t |-> "None"]

PyBool(b) == [t |-> "bool", b |-> b]

PyInt(n) == [t |-> "int", n |-> n]

\* a float with one decimal place: tenths / 10
PyFloat(tenths) == [t |-> "float", tenths |-> tenths]

PyStr(s) == [t |-> "str", s |-> s]

PyList(items) == [t |-> "list", items |-> items]

PyDict(fields) == [t |-> "dict", fields |-> fields]

EmptyMap == [k \in {} |-> PyNone]

\* bool(v): Python truthiness
Truthy(v) ==
  CASE v.t = "None" -> FALSE
    [] v.t = "bool" -> v.b
    [] v.t = "int" -> v.n # 0
    [] v.t = "float" -> v.tenths # 0
    [] v.t = "str" -> v.s # <<>>
    [] v.t = "list" -> v.items # <<>>
    [] v.t = "dict" -> DOMAIN v.fields # {}

\* a or b
PyOr(a, b) == IF Truthy(a) THEN a ELSE b

\* d.get(key, default) on a dict d
DictGet(d, key, default) ==
  IF key \in DOMAIN d.fields THEN d.fields[key] ELSE default

\* isinstance(v, int): bool is a subclass of int
IsInstanceInt(v) == v.t \in {"int", "bool"}

Digit == <<"0", "1", "2", "3", "4", "5", "6", "7", "8", "9">>

Digits == {Digit[i] : i \in 1..10}

RECURSIVE IntToText(_)
\* str(n) for a non-negative int n
IntToText(n) ==
  IF n < 10 THEN <<Digit[n + 1]>>
  ELSE IntToText(n \div 10) \o <<Digit[(n % 10) + 1]>>

\* str(v) for the values the client stringifies (the text of a list or a
\* dict is one opaque token)
PyStrOf(v) ==
  CASE v.t = "None" -> <<"None">>
    [] v.t = "bool" -> IF v.b THEN <<"True">> ELSE <<"False">>
    [] v.t = "int" -> IF v.n < 0 THEN <<"-">> \o IntToText(0 - v.n) ELSE IntToText(v.n)
    [] v.t = "str" -> v.s
    [] v.t = "float" -> IntToText(v.tenths \div 10) \o <<".">> \o IntToText(v.tenths % 10)
    [] OTHER -> <<"<repr>">>

\* a character that str.isdigit accepts and that is not a decimal digit
OtherDigits == {"SUPERSCRIPT TWO"}

\* value.isdigit()
IsDigitText(s) == s # <<>> /\ \A i \in 1..Len(s) : s[i] \in Digits \cup OtherDigits

\* ------------------------------------------------------------------------
\* Outcomes of a call: a returned value or a raised exception
\* ------------------------------------------------------------------------
Return(v) == [kind |-> "return", value |-> v]

Raise(exc, msg) == [kind |-> "raise", exc |-> exc, msg |-> msg]

Raised(r) == r.kind = "raise"

\* r is the outcome of a statement: an exception ends the block, a value
\* goes on to the statements after it
Then(r, Rest(_)) == IF Raised(r) THEN r ELSE Rest(r.value)

\* try: r / except Exception: return default
ExceptReturn(r, default) == IF Raised(r) THEN Return(default) ELSE r

AttributeError(attr) == Raise("AttributeError", "object has no attribute " \o attr)

\* ------------------------------------------------------------------------
\* yarl.URL on token text
\* ------------------------------------------------------------------------
SchemeTokens == {"http:", "https:", "ftp:"}

\* s.rstrip("/") that removes one trailing token only
RStripOneSlash(s) ==
  IF s # <<>> /\ s[Len(s)] \in {"/", "//"} THEN SubSeq(s, 1, Len(s) - 1) ELSE s

\* s.rstrip("/"): "/" and "//" are the tokens made of slashes only
RECURSIVE RStripSlash(_)
RStripSlash(s) ==
  IF s # <<>> /\ s[Len(s)] \in {"/", "//"}
  THEN RStripSlash(SubSeq(s, 1, Len(s) - 1))
  ELSE s

\* index of the first token of s at or after i that is in set, else Len(s)+1
RECURSIVE FirstIn(_, _, _)
FirstIn(s, i, set) ==
  IF i > Len(s) THEN Len(s) + 1
  ELSE IF s[i] \in set THEN i
  ELSE FirstIn(s, i + 1, set)

\* the user-info and host of an authority whose "@" is at index at
UrlOf(scheme, absolute, netloc, at, path, fragment) ==
  [scheme |-> scheme,
   absolute |-> absolute,
   user |-> IF at <= Len(netloc) THEN PyStr(SubSeq(netloc, 1, at - 1)) ELSE PyNone,
   host |-> IF at <= Len(netloc) THEN SubSeq(netloc, at + 1, Len(netloc)) ELSE netloc,
   path |-> path,
   fragment |-> fragment]

\* the path starts at index p and the fragment's "#" is at index f
SplitPath(s, scheme, absolute, netloc, p, f) ==
  UrlOf(scheme, absolute, netloc, FirstIn(netloc, 1, {"@"}), SubSeq(s, p, f - 1),
        SubSeq(s, f + 1, Len(s)))

\* the authority, if any, starts after the "//" at index a and ends before p
SplitAuthority(s, scheme, a, p) ==
  IF a <= Len(s) /\ s[a] = "//"
  THEN SplitPath(s, scheme, TRUE, SubSeq(s, a + 1, p - 1), p, FirstIn(s, p, {"#"}))
  ELSE SplitPath(s, scheme, FALSE, <<>>, a, FirstIn(s, a, {"#"}))

\* URL(text): split into scheme, authority (user, host), path, fragment
URL(s) ==
  IF s # <<>> /\ s[1] \in SchemeTokens
  THEN SplitAuthority(s, s[1], 2, FirstIn(s, 3, {"/", "//", "#"}))
  ELSE SplitAuthority(s, "", 1, FirstIn(s, 2, {"/", "//", "#"}))

\* url.with_fragment(None)
WithFragmentNone(url) == [url EXCEPT !.fragment = <<>>]

\* str(url): yarl writes "/" for an empty path of an absolute URL only when
\* a fragment follows
UrlStr(url) ==
  (IF url.scheme # "" THEN <<url.scheme>> ELSE <<>>)
  \o (IF url.absolute
      THEN <<"//">> \o (IF url.user # PyNone THEN url.user.s \o <<"@">> ELSE <<>>) \o url.host
      ELSE <<>>)
  \o (IF url.path = <<>> /\ url.absolute /\ url.fragment # <<>> THEN <<"/">> ELSE url.path)
  \o (IF url.fragment # <<>> THEN <<"#">> \o url.fragment ELSE <<>>)

\* _clean_base_url, lines 27-33: the checks on the parsed URL
\* the checks of lines 27-32 without the fragment check
CheckedUrlAnyFragment(url) ==
  IF url.scheme \notin {"http:", "https:"}
  THEN Raise("ValueError", "base_url must use http or https")
  ELSE IF url.user # PyNone
  THEN Raise("ValueError", "base_url must not contain user info")
  ELSE Return(PyStr(UrlStr(url)))

CheckedUrl(url) ==
  IF url.scheme \notin {"http:", "https:"}
  THEN Raise("ValueError", "base_url must use http or https")
  ELSE IF url.user # PyNone
  THEN Raise("ValueError", "base_url must not contain user info")
  ELSE IF url.fragment # <<>>
  THEN Raise("ValueError", "base_url must not contain fragment")
  ELSE Return(PyStr(UrlStr(url)))

\* _clean_base_url(base_url)
_clean_base_url(base_url) ==
  IF ~Truthy(base_url) THEN Return(PyNone)
  ELSE IF base_url.t # "str" THEN Raise("ValueError", "Invalid base_url")
  ELSE CheckedUrl(URL(RStripSlash(base_url.s)))

\* _validate_numeric_id that stringifies whatever it is given
_validate_numeric_id_lenient(value, field) == Return(PyStr(PyStrOf(value)))

\* _validate_numeric_id(value, field)
_validate_numeric_id(value, field) ==
  IF IsInstanceInt(value) THEN Return(PyStr(PyStrOf(value)))
  ELSE IF value.t = "str" /\ IsDigitText(value.s) THEN Return(value)
  ELSE Raise("ValueError", field \o " must be a numeric id")

\* ------------------------------------------------------------------------
\* Response bodies.  A body is text that is JSON (with the value it denotes),
\* XML (with its element tree and namespace declarations) or neither.
\* ------------------------------------------------------------------------
JsonText(v) == [fmt |-> "json", json |-> v]

\* xmlns / xmlns_i: the default and the i: namespace are declared;
\* uses_i: some attribute carries the i: prefix
XmlText(ns, nsi, uses, root) ==
  [fmt |-> "xml", xmlns |-> ns, xmlns_i |-> nsi, uses_i |-> uses, root |-> root]

OtherText == [fmt |-> "other"]

\* json.loads(text)
json_loads(text) ==
  IF text.fmt = "json" THEN Return(text.json)
  ELSE Raise("JSONDecodeError", "Expecting value")

Key(name) == PyStr(<<name>>)

\* obj.get(name, default): AttributeError unless obj is a dict
Get(obj, name, default) ==
  IF obj.t = "dict" THEN Return(DictGet(obj, Key(name), default))
  ELSE AttributeError("get")

\* d[key] = value
DictSet(d, key, value) == PyDict((key :> value) @@ d.fields)

\* ------------------------------------------------------------------------
\* AvailClient._get_json, given the outcome got of "await self._get_text(url)":
\* an exception of _get_text propagates
\* ------------------------------------------------------------------------
JsonOrValueError(r) ==
  IF Raised(r) THEN Raise("ValueError", "Response was not valid JSON") ELSE r

_get_json(got) == Then(got, LAMBDA text : JsonOrValueError(json_loads(text)))

\* ------------------------------------------------------------------------
\* AvailClient._parse_alerts_json
\* ------------------------------------------------------------------------
AlertOf(msg) ==
  PyDict(Key("id") :> DictGet(msg, Key("MessageId"), PyNone)
      @@ Key("header") :> DictGet(msg, Key("Header"), PyNone)
      @@ Key("message") :> DictGet(msg, Key("Message"), PyNone)
      @@ Key("priority") :> DictGet(msg, Key("Priority"), PyNone))

_parse_alerts_json(data) ==
  IF data.t # "list" THEN Return(PyList(<<>>))
  ELSE IF \E i \in 1..Len(data.items) : data.items[i].t # "dict"
  THEN AttributeError("get")
  ELSE Return(PyList([i \in 1..Len(data.items) |-> AlertOf(data.items[i])]))

\* ------------------------------------------------------------------------
\* AvailClient.get_agencies, given the outcome of _get_text
\* ------------------------------------------------------------------------
\* lines 91-92 left out
StripRestNever(clean_url) == clean_url

\* lines 91-92
StripRest(clean_url) ==
  IF Len(clean_url) >= 2 /\ clean_url[Len(clean_url) - 1] = "/" /\ clean_url[Len(clean_url)] = "rest"
  THEN SubSeq(clean_url, 1, Len(clean_url) - 2)
  ELSE clean_url

\* line 90
WithoutFragment(url) == UrlStr(WithFragmentNone(URL(RStripSlash(url))))

\* line 93
AgencySet(agencies, name, cleaned) ==
  IF name.t \in {"list", "dict"} THEN Raise("TypeError", "unhashable type")
  ELSE Return(DictSet(agencies, name, PyOr(cleaned, PyStr(<<>>))))

\* lines 88-93
AgencyEntry(agencies, name, url) ==
  IF ~(Truthy(name) /\ Truthy(url)) THEN Return(agencies)
  ELSE IF url.t # "str" THEN AttributeError("rstrip")
  ELSE Then(_clean_base_url(PyStr(StripRest(WithoutFragment(url.s)))),
            LAMBDA cleaned : AgencySet(agencies, name, cleaned))

\* lines 86-93: one iteration of the loop on the mapping built so far
AgencyStep(agencies, authority) ==
  IF authority.t # "dict" THEN AttributeError("get")
  ELSE AgencyEntry(agencies, DictGet(authority, Key("Name"), PyNone),
                   DictGet(authority, Key("RestUrl"), PyNone))

RECURSIVE AgencyLoop(_, _, _)
AgencyLoop(agencies, items, i) ==
  IF i > Len(items) THEN Return(agencies)
  ELSE Then(AgencyStep(agencies, items[i]), LAMBDA added : AgencyLoop(added, items, i + 1))

\* lines 83-94: "return agencies" is inside "if isinstance(data, list)";
\* with any other JSON value the try block ends without a return statement
\* and the call returns None
AgenciesOf(data) ==
  IF data.t = "list" THEN AgencyLoop(PyDict(EmptyMap), data.items, 1)
  ELSE Return(PyNone)

\* get_agencies without its "except Exception"
get_agencies_raising(got) == Then(_get_json(got), LAMBDA data : AgenciesOf(data))

get_agencies(got) ==
  ExceptReturn(Then(_get_json(got), LAMBDA data : AgenciesOf(data)), PyDict(EmptyMap))

\* ------------------------------------------------------------------------
\* AvailClient.get_stop_info, get_alerts, get_route_details, given the
\* outcome of _get_text
\* ------------------------------------------------------------------------
\* line 144
NameOrId(name, s_id) ==
  IF name.t = "str" /\ Truthy(name) THEN Return(name) ELSE Return(PyStr(s_id))

\* get_stop_info without its "except Exception"
get_stop_info_raising(s_id, got) ==
  Then(_get_json(got),
       LAMBDA data : Then(Get(data, "Name", PyNone), LAMBDA name : NameOrId(name, s_id)))

get_stop_info(s_id, got) ==
  ExceptReturn(Then(_get_json(got),
                    LAMBDA data : Then(Get(data, "Name", PyNone),
                                       LAMBDA name : NameOrId(name, s_id))),
               PyStr(s_id))

get_alerts(got) ==
  ExceptReturn(Then(_get_json(got), LAMBDA data : _parse_alerts_json(data)), PyList(<<>>))

\* lines 166-170
RouteMessages(data) ==
  IF data.t = "list" /\ Truthy(data)
  THEN Then(Get(data.items[1], "Messages", PyList(<<>>)), LAMBDA m : _parse_alerts_json(m))
  ELSE IF data.t = "dict"
  THEN _parse_alerts_json(DictGet(data, Key("Messages"), PyList(<<>>)))
  ELSE Return(PyList(<<>>))

get_route_details(got) ==
  ExceptReturn(Then(_get_json(got), LAMBDA data : RouteMessages(data)), PyList(<<>>))

\* ------------------------------------------------------------------------
\* Iteration over a Python value (for x in v)
\* ------------------------------------------------------------------------
RECURSIVE SetToSeq(_)
SetToSeq(S) ==
  IF S = {} THEN <<>>
  ELSE <<CHOOSE y \in S : TRUE>> \o SetToSeq(S \ {CHOOSE y \in S : TRUE})

Iterate(v) ==
  CASE v.t = "list" -> Return(v.items)
    [] v.t = "str" -> Return([i \in 1..Len(v.s) |-> PyStr(<<v.s[i]>>)])
    [] v.t = "dict" -> Return(SetToSeq(DOMAIN v.fields))
    [] OTHER -> Raise("TypeError", "object is not iterable")

\* v == 0 in Python: 0, 0.0 and False are equal to 0
PyEqZero(v) ==
  \/ v.t = "int" /\ v.n = 0
  \/ v.t = "float" /\ v.tenths = 0
  \/ v.t = "bool" /\ ~v.b

Departure(route_id, direction, destination, eta, status, is_realtime) ==
  PyDict(Key("route_id") :> route_id
      @@ Key("direction") :> direction
      @@ Key("destination") :> destination
      @@ Key("eta") :> eta
      @@ Key("status") :> status
      @@ Key("is_realtime") :> PyBool(is_realtime))

\* ------------------------------------------------------------------------
\* AvailClient._parse_departures_json
\* ------------------------------------------------------------------------
\* lines 215-228: the record appended for a departure with its trip
JsonTripDeparture(dep, trip, route_id, direction_code) ==
  IF trip.t # "dict" THEN AttributeError("get")
  ELSE Return(Departure(
         PyStr(route_id), direction_code,
         PyOr(DictGet(trip, Key("InternetServiceDesc"), PyNone),
              PyOr(DictGet(trip, Key("InternalSignDesc"), PyNone), PyStr(<<"Unknown">>))),
         PyOr(DictGet(dep, Key("ETALocalTime"), PyNone), DictGet(dep, Key("STALocalTime"), PyNone)),
         DictGet(dep, Key("StopStatusReportLabel"), PyNone),
         ~PyEqZero(DictGet(dep, Key("Mode"), PyNone))))

\* lines 214-228: the record appended for one departure
JsonDeparture(dep, route_id, direction_code) ==
  IF dep.t # "dict" THEN AttributeError("get")
  ELSE JsonTripDeparture(dep, DictGet(dep, Key("Trip"), PyDict(EmptyMap)), route_id, direction_code)

RECURSIVE JsonDepLoop(_, _, _, _, _)
\* lines 213-228: the loop over the departures of one route direction
JsonDepLoop(flat, deps, i, route_id, direction_code) ==
  IF i > Len(deps) THEN Return(flat)
  ELSE Then(JsonDeparture(deps[i], route_id, direction_code),
            LAMBDA d : JsonDepLoop(Append(flat, d), deps, i + 1, route_id, direction_code))

\* one route direction, with the IsDone test left out
JsonRouteDirIgnoringDone(flat, route_dir) ==
  IF route_dir.t # "dict" THEN AttributeError("get")
  ELSE IF ~Truthy(DictGet(route_dir, Key("Departures"), PyNone))
  THEN Return(flat)
  ELSE Then(Iterate(DictGet(route_dir, Key("Departures"), PyList(<<>>))),
            LAMBDA deps : JsonDepLoop(flat, deps, 1,
                                      PyStrOf(DictGet(route_dir, Key("RouteId"), PyNone)),
                                      DictGet(route_dir, Key("DirectionCode"), PyNone)))

\* lines 207-228: one route direction
JsonRouteDir(flat, route_dir) ==
  IF route_dir.t # "dict" THEN AttributeError("get")
  ELSE IF Truthy(DictGet(route_dir, Key("IsDone"), PyNone))
          \/ ~Truthy(DictGet(route_dir, Key("Departures"), PyNone))
  THEN Return(flat)
  ELSE Then(Iterate(DictGet(route_dir, Key("Departures"), PyList(<<>>))),
            LAMBDA deps : JsonDepLoop(flat, deps, 1,
                                      PyStrOf(DictGet(route_dir, Key("RouteId"), PyNone)),
                                      DictGet(route_dir, Key("DirectionCode"), PyNone)))

RECURSIVE JsonRouteDirLoop(_, _, _)
JsonRouteDirLoop(flat, dirs, i) ==
  IF i > Len(dirs) THEN Return(flat)
  ELSE Then(JsonRouteDir(flat, dirs[i]), LAMBDA more : JsonRouteDirLoop(more, dirs, i + 1))

\* line 206: the route directions of one stop-departure entry
JsonEntry(flat, entry) ==
  Then(Get(entry, "RouteDirections", PyList(<<>>)),
       LAMBDA rds : Then(Iterate(rds), LAMBDA dirs : JsonRouteDirLoop(flat, dirs, 1)))

RECURSIVE JsonEntryLoop(_, _, _)
\* line 205: the loop over the stop-departure entries
JsonEntryLoop(flat, entries, i) ==
  IF i > Len(entries) THEN Return(flat)
  ELSE Then(JsonEntry(flat, entries[i]), LAMBDA more : JsonEntryLoop(more, entries, i + 1))

_parse_departures_json(data) ==
  Then(JsonEntryLoop(<<>>, IF data.t = "list" THEN data.items ELSE <<data>>, 1),
       LAMBDA flat_departures : Return(PyList(flat_departures)))

\* ------------------------------------------------------------------------
\* xml.etree.ElementTree elements
\* ------------------------------------------------------------------------
Element(tag, text, children) == [tag |-> tag, text |-> text, children |-> children]

\* element.findall(tag): the direct children with that tag
FindAll(e, tag) == SelectSeq(e.children, LAMBDA c : c.tag = tag)

\* element.find(tag) is not None
Has(e, tag) == \E i \in 1..Len(e.children) : e.children[i].tag = tag

\* element.find(tag), when it is not None
Find(e, tag) == e.children[CHOOSE i \in 1..Len(e.children) :
                             /\ e.children[i].tag = tag
                             /\ \A j \in 1..(i - 1) : e.children[j].tag # tag]

\* the text of a found element: "" for an element without text
TextOf(e) == IF e.text = PyNone THEN PyStr(<<>>) ELSE e.text

\* element.findtext(tag): None without such a child
FindText(e, tag) == IF Has(e, tag) THEN TextOf(Find(e, tag)) ELSE PyNone

LowerToken(tok) ==
  CASE tok \in {"True", "TRUE"} -> "true"
    [] tok \in {"False", "FALSE"} -> "false"
    [] OTHER -> tok

\* s.lower()
Lower(s) == [i \in 1..Len(s) |-> LowerToken(s[i])]

\* re.sub(r' xmlns="[^\"]+"', "", text, count=1) and
\* re.sub(r' xmlns:i="[^\"]+"', '', xml_text, count=1)
StripNamespaces(text) ==
  IF text.fmt = "xml" THEN [text EXCEPT !.xmlns = FALSE, !.xmlns_i = FALSE] ELSE text

RECURSIVE Qualified(_)
\* the tree of a document whose default namespace is declared: every tag
\* carries the namespace
Qualified(e) ==
  Element("{ns}" \o e.tag, e.text, [i \in 1..Len(e.children) |-> Qualified(e.children[i])])

\* ET.fromstring(xml_text): a document that uses the i: prefix without
\* declaring it is not well-formed (unbound prefix)
ET_fromstring(text) ==
  IF text.fmt # "xml" THEN Raise("ParseError", "syntax error")
  ELSE IF text.uses_i /\ ~text.xmlns_i THEN Raise("ParseError", "unbound prefix")
  ELSE Return(IF text.xmlns THEN Qualified(text.root) ELSE text.root)

\* ------------------------------------------------------------------------
\* AvailClient._parse_departures_xml
\* ------------------------------------------------------------------------
\* the destination with the sign description looked up first
XmlDestinationSignFirst(dep) ==
  IF Has(dep, "Trip")
  THEN PyOr(FindText(Find(dep, "Trip"), "InternalSignDesc"),
            PyOr(FindText(Find(dep, "Trip"), "InternetServiceDesc"), PyStr(<<"Unknown">>)))
  ELSE PyStr(<<"Unknown">>)

\* lines 259-265
XmlDestination(dep) ==
  IF Has(dep, "Trip")
  THEN PyOr(FindText(Find(dep, "Trip"), "InternetServiceDesc"),
            PyOr(FindText(Find(dep, "Trip"), "InternalSignDesc"), PyStr(<<"Unknown">>)))
  ELSE PyStr(<<"Unknown">>)

\* the record of one Departure element, with the mode compared to the
\* integer 0 as in JSON
XmlDepartureModeAsInt(dep, route_id, direction_code) ==
  Departure(PyStr(PyStrOf(route_id)), direction_code, XmlDestination(dep),
            PyOr(FindText(dep, "ETALocalTime"), FindText(dep, "STALocalTime")),
            FindText(dep, "StopStatusReportLabel"),
            ~PyEqZero(FindText(dep, "Mode")))

\* lines 254-276: the record appended for one Departure element
XmlDeparture(dep, route_id, direction_code) ==
  Departure(PyStr(PyStrOf(route_id)), direction_code, XmlDestination(dep),
            PyOr(FindText(dep, "ETALocalTime"), FindText(dep, "STALocalTime")),
            FindText(dep, "StopStatusReportLabel"),
            FindText(dep, "Mode") # PyStr(<<"0">>))

\* lines 253-276: the loop over the Departure elements of one direction
XmlDepartures(deps, route_id, direction_code) ==
  [i \in 1..Len(deps) |-> XmlDeparture(deps[i], route_id, direction_code)]

\* lines 242-243
XmlIsDone(is_done) == Truthy(is_done) /\ Lower(is_done.s) = <<"true">>

\* lines 242-276: the departures of one RouteDirection element
XmlRouteDir(route_dir) ==
  IF XmlIsDone(FindText(route_dir, "IsDone")) THEN <<>>
  ELSE IF ~Has(route_dir, "Departures") THEN <<>>
  ELSE IF Find(route_dir, "Departures").children = <<>> THEN <<>>
  ELSE XmlDepartures(FindAll(Find(route_dir, "Departures"), "Departure"),
                     FindText(route_dir, "RouteId"), FindText(route_dir, "DirectionCode"))

RECURSIVE XmlRouteDirLoop(_, _)
XmlRouteDirLoop(dirs, i) ==
  IF i > Len(dirs) THEN <<>>
  ELSE XmlRouteDir(dirs[i]) \o XmlRouteDirLoop(dirs, i + 1)

\* lines 237-241: one stop-departure entry
XmlEntry(entry) ==
  IF ~Has(entry, "RouteDirections") THEN <<>>
  ELSE XmlRouteDirLoop(FindAll(Find(entry, "RouteDirections"), "RouteDirection"), 1)

RECURSIVE XmlEntryLoop(_, _)
XmlEntryLoop(entries, i) ==
  IF i > Len(entries) THEN <<>>
  ELSE XmlEntry(entries[i]) \o XmlEntryLoop(entries, i + 1)

_parse_departures_xml(root) ==
  Return(PyList(XmlEntryLoop(IF root.tag = "ArrayOfStopDeparture"
                             THEN FindAll(root, "StopDeparture") ELSE <<root>>, 1)))

\* ------------------------------------------------------------------------
\* AvailClient.get_departures, given the outcome of _get_text
\* ------------------------------------------------------------------------
\* lines 124-131
DeparturesFromXml(root) ==
  IF Raised(root) THEN Return(PyList(<<>>)) ELSE _parse_departures_xml(root.value)

\* lines 118-131
DeparturesFrom(text, data) ==
  IF ~Raised(data) THEN _parse_departures_json(data.value)
  ELSE DeparturesFromXml(ET_fromstring(StripNamespaces(text)))

\* get_departures without its outer "except Exception"
get_departures_raising(got) == Then(got, LAMBDA text : DeparturesFrom(text, json_loads(text)))

get_departures(got) ==
  ExceptReturn(Then(got, LAMBDA text : DeparturesFrom(text, json_loads(text))), PyList(<<>>))

\* ------------------------------------------------------------------------
\* AvailClient._parse_routes_json
\* ------------------------------------------------------------------------
PyTuple(items) == [t |-> "tuple", items |-> items]

\* s.strip(" -")
RECURSIVE LStripSep(_)
LStripSep(s) == IF s # <<>> /\ Head(s) \in {" ", "-"} THEN LStripSep(Tail(s)) ELSE s

RECURSIVE RStripSep(_)
RStripSep(s) ==
  IF s # <<>> /\ s[Len(s)] \in {" ", "-"} THEN RStripSep(SubSeq(s, 1, Len(s) - 1)) ELSE s

\* f"{abbr} - {long_name}".strip(" -")
RouteLabel(abbr, long_name) ==
  RStripSep(LStripSep(PyStrOf(abbr) \o <<" ", "-", " ">> \o PyStrOf(long_name)))

\* f"{s_name} ({s_id})"
StopLabel(s_name, s_id) == PyStrOf(s_name) \o <<" (">> \o s_id \o <<")">>

\* a stop added whether or not it has a name
StopAddedUnnamed(stop_set, s_id, s_name) ==
  DictSet(stop_set, PyStr(StopLabel(s_name, s_id)), PyStr(s_id))

\* lines 197-198
StopAdded(stop_set, s_id, s_name) ==
  IF s_id # <<>> /\ Truthy(s_name)
  THEN DictSet(stop_set, PyStr(StopLabel(s_name, s_id)), PyStr(s_id))
  ELSE stop_set

RECURSIVE StopLoop(_, _, _)
\* lines 194-198: the stops of one route, added to that route's stop set
StopLoop(stop_set, stops, i) ==
  IF i > Len(stops) THEN Return(stop_set)
  ELSE IF stops[i].t # "dict" THEN AttributeError("get")
  ELSE StopLoop(StopAdded(stop_set, PyStrOf(DictGet(stops[i], Key("StopId"), PyNone)),
                          DictGet(stops[i], Key("Name"), PyNone)),
                stops, i + 1)

\* a route added to the stops mapping only when it has a stop
RouteAddedWithStops(acc, label, r_id, stop_set) ==
  Return([routes |-> DictSet(acc.routes, PyStr(label), PyStr(r_id)),
          stops_map |-> IF stop_set = PyDict(EmptyMap) THEN acc.stops_map
                        ELSE DictSet(acc.stops_map, PyStr(r_id), stop_set)])

\* lines 192-193, with the route's stop set
RouteAdded(acc, label, r_id, stop_set) ==
  Return([routes |-> DictSet(acc.routes, PyStr(label), PyStr(r_id)),
          stops_map |-> DictSet(acc.stops_map, PyStr(r_id), stop_set)])

\* lines 191-198
RouteKept(acc, route, r_id, label) ==
  IF r_id = <<>> THEN Return(acc)
  ELSE Then(Iterate(DictGet(route, Key("Stops"), PyList(<<>>))),
            LAMBDA stops : Then(StopLoop(PyDict(EmptyMap), stops, 1),
                                LAMBDA stop_set : RouteAdded(acc, label, r_id, stop_set)))

\* one route, with the IsVisible test left out
RouteStepAllVisible(acc, route) ==
  IF route.t # "dict" THEN AttributeError("get")
  ELSE RouteKept(acc, route, PyStrOf(DictGet(route, Key("RouteId"), PyNone)),
                 RouteLabel(PyOr(DictGet(route, Key("RouteAbbreviation"), PyStr(<<>>)),
                                 DictGet(route, Key("ShortName"), PyStr(<<>>))),
                            DictGet(route, Key("LongName"), PyStr(<<>>))))

\* lines 183-198: one route, on the pair (routes, stops_map) built so far
RouteStep(acc, route) ==
  IF route.t # "dict" THEN AttributeError("get")
  ELSE IF ~Truthy(DictGet(route, Key("IsVisible"), PyBool(TRUE))) THEN Return(acc)
  ELSE RouteKept(acc, route, PyStrOf(DictGet(route, Key("RouteId"), PyNone)),
                 RouteLabel(PyOr(DictGet(route, Key("RouteAbbreviation"), PyStr(<<>>)),
                                 DictGet(route, Key("ShortName"), PyStr(<<>>))),
                            DictGet(route, Key("LongName"), PyStr(<<>>))))

RECURSIVE RouteLoop(_, _, _)
RouteLoop(acc, route_list, i) ==
  IF i > Len(route_list) THEN Return(acc)
  ELSE Then(RouteStep(acc, route_list[i]), LAMBDA more : RouteLoop(more, route_list, i + 1))

_parse_routes_json(data) ==
  Then(RouteLoop([routes |-> PyDict(EmptyMap), stops_map |-> PyDict(EmptyMap)],
                 IF data.t = "list" THEN data.items ELSE <<>>, 1),
       LAMBDA acc : Return(PyTuple(<<acc.routes, acc.stops_map>>)))

\* ------------------------------------------------------------------------
\* AvailClient.get_routes, given the outcome of _get_text: the handler logs
\* and re-raises
\* ------------------------------------------------------------------------
\* get_routes with the suppress-to-empty policy of the polling operations
get_routes_swallowing(got) ==
  ExceptReturn(Then(_get_json(got), LAMBDA data : _parse_routes_json(data)),
               PyTuple(<<PyDict(EmptyMap), PyDict(EmptyMap)>>))

get_routes(got) == Then(_get_json(got), LAMBDA data : _parse_routes_json(data))

\* ------------------------------------------------------------------------
\* Inputs: texts, identifiers, URLs and upstream response bodies
\* ------------------------------------------------------------------------
Str(tok) == PyStr(<<tok>>)

\* longest list of authority records, route directions or alert messages
\* in a generated response body
MaxItems == 2

\* all sequences over S of length 0..n
SeqsUpTo(S, n) == UNION {[1..k -> S] : k \in 0..n}

\* A URL text is written from its parts: scheme (or none, for a relative
\* URL), user-info, host, path segments, a trailing slash, a fragment.
UrlParts ==
  [scheme : {"http:", "https:", "ftp:"}, user : BOOLEAN,
   segs : {<<>>, <<"rest">>, <<"a">>, <<"a", "rest">>}, slash : BOOLEAN, frag : BOOLEAN]
  \cup [scheme : {""}, user : {FALSE},
        segs : {<<>>, <<"rest">>, <<"a">>}, slash : BOOLEAN, frag : {FALSE}]

RECURSIVE PathText(_)
PathText(segs) == IF segs = <<>> THEN <<>> ELSE <<"/", Head(segs)>> \o PathText(Tail(segs))

UrlText(p) ==
  (IF p.scheme = "" THEN <<>>
   ELSE <<p.scheme, "//">> \o (IF p.user THEN <<"usr", "@">> ELSE <<>>) \o <<"host">>)
  \o PathText(p.segs)
  \o (IF p.slash THEN <<"/">> ELSE <<>>)
  \o (IF p.frag THEN <<"#", "frag">> ELSE <<>>)

\* the base URLs a client is constructed with
RawBaseUrls ==
  {PyNone, PyStr(<<>>)}
  \cup {PyStr(UrlText(p)) : p \in {q \in UrlParts : q.scheme \in {"http:", "ftp:"} /\ q.segs \in {<<>>, <<"a">>}}}

\* the texts _clean_base_url is called with
CleanInputs ==
  {PyNone, PyStr(<<>>), PyInt(5), PyStr(<<"https:", "//", "host", "/", "a", "/", "/">>)}
  \cup {PyStr(UrlText(p)) : p \in UrlParts}

\* the identifiers passed as stop_id or route_id
Ids ==
  {PyInt(12), Str("7"), PyStr(<<"1", "2", "a">>), PyStr(<<>>),
   PyNone, PyFloat(15)}

\* the values and field names _validate_numeric_id is called with
IdValues ==
  Ids \cup {PyInt(0), PyInt(123), PyInt(0 - 5), PyBool(TRUE), PyBool(FALSE),
            PyStr(<<"1", "2", "3">>), PyStr(<<"0", "7">>), PyStr(<<"-", "5">>),
            PyStr(<<"SUPERSCRIPT TWO">>), PyList(<<>>)}

IdFields == {"stop_id", "route_id"}

\* an int and the text of the same number
SameNumbers == {<<PyInt(7), Str("7")>>, <<PyInt(123), PyStr(<<"1", "2", "3">>)>>}

\* authority records of the discovery response
AuthorityOf(name, url) ==
  LET keys == (IF name = PyNone THEN {} ELSE {Key("Name")})
              \cup (IF url = PyNone THEN {} ELSE {Key("RestUrl")})
  IN PyDict([k \in keys |-> IF k = Key("Name") THEN name ELSE url])

AgencyNames == {Str("Metro"), Str("Valley")}

\* records with every written URL, under one name
UrlAuthorities == {AuthorityOf(Str("Metro"), PyStr(UrlText(p))) : p \in UrlParts}

\* records for the lists of several records: present, duplicate, missing,
\* empty and invalid fields
CoreAuthorities ==
  {AuthorityOf(n, PyStr(<<"http:", "//", "host", "/", "rest">>)) : n \in AgencyNames}
  \cup {AuthorityOf(Str("Metro"), PyStr(<<"https:", "//", "host", "/", "a", "/">>)),
        AuthorityOf(Str("Valley"), PyNone),
        AuthorityOf(PyNone, PyStr(<<"http:", "//", "host">>)),
        AuthorityOf(PyStr(<<>>), PyStr(<<"http:", "//", "host">>)),
        AuthorityOf(Str("Valley"), PyStr(<<>>)),
        AuthorityOf(Str("Valley"), PyStr(<<"ftp:", "//", "host">>)),
        AuthorityOf(Str("Metro"), PyStr(<<"/", "rest">>))}

AuthorityLists ==
  {<<a>> : a \in UrlAuthorities} \cup SeqsUpTo(CoreAuthorities, MaxItems)

\* bodies that are wrong for every endpoint
BadBodies == {OtherText, JsonText(PyInt(5)), JsonText(PyNone)}

DiscoveryBodies ==
  {JsonText(PyList(l)) : l \in AuthorityLists}
  \cup {JsonText(PyList(<<PyInt(5)>>)),
        JsonText(PyList(<<AuthorityOf(Str("Metro"), PyInt(5))>>)),
        JsonText(PyList(<<AuthorityOf(PyList(<<Str("Metro")>>), PyStr(<<"http:", "//", "host">>))>>)),
        JsonText(AuthorityOf(Str("Metro"), PyStr(<<"http:", "//", "host">>)))}
  \cup BadBodies

\* stop lookup
StopInfoBodies ==
  {JsonText(PyDict(Key("Name") :> n)) : n \in {Str("Main St"), PyStr(<<>>), PyInt(5), PyNone}}
  \cup {JsonText(PyDict(EmptyMap)), JsonText(PyList(<<>>))}
  \cup BadBodies

\* alert messages
Message(id) ==
  PyDict(Key("MessageId") :> PyInt(id) @@ Key("Header") :> Str("Detour")
      @@ Key("Message") :> Str("Stop closed") @@ Key("Priority") :> PyInt(2))

Messages == {Message(1), Message(2), PyDict(EmptyMap)}

MessageLists == {PyList(l) : l \in SeqsUpTo(Messages, MaxItems)}

AlertBodies ==
  {JsonText(l) : l \in MessageLists}
  \cup {JsonText(PyList(<<Message(1), PyInt(5)>>)), JsonText(PyDict(EmptyMap))}
  \cup BadBodies

RouteDetailBodies ==
  {JsonText(PyDict(Key("Messages") :> l)) : l \in MessageLists}
  \cup {JsonText(PyList(<<PyDict(Key("Messages") :> l)>>)) : l \in MessageLists}
  \cup {JsonText(PyList(<<>>)), JsonText(PyDict(EmptyMap)), JsonText(PyList(<<PyInt(5)>>)),
        JsonText(PyDict(Key("Messages") :> PyInt(5))),
        JsonText(PyDict(Key("Messages") :> PyList(<<PyInt(5)>>))),
        JsonText(PyList(<<PyDict(Key("Messages") :> PyList(<<Message(1)>>)), PyInt(5)>>))}
  \cup BadBodies

\* departures, JSON
JsonDep(mode, internet, sign, eta) ==
  PyDict(Key("Trip") :> PyDict(Key("InternetServiceDesc") :> internet
                            @@ Key("InternalSignDesc") :> sign)
      @@ Key("ETALocalTime") :> eta
      @@ Key("STALocalTime") :> Str("2024-05-01T10:00:00")
      @@ Key("StopStatusReportLabel") :> Str("On Time")
      @@ Key("Mode") :> mode)

JsonDeps ==
  {JsonDep(PyInt(1), Str("Downtown"), Str("DT"), Str("2024-05-01T10:02:00")),
   JsonDep(PyInt(0), PyNone, Str("DT"), PyNone),
   PyDict(Key("STALocalTime") :> Str("2024-05-01T10:00:00"))}

JsonDir(route_id, done, deps) ==
  PyDict(Key("RouteId") :> PyInt(route_id) @@ Key("DirectionCode") :> Str("O")
      @@ Key("IsDone") :> PyBool(done) @@ Key("Departures") :> PyList(deps))

JsonDirs ==
  {JsonDir(10, FALSE, <<d>>) : d \in JsonDeps}
  \cup {JsonDir(11, TRUE, <<d>>) : d \in JsonDeps}
  \cup {JsonDir(12, FALSE, <<>>)}

JsonStopDeparture(dirs) == PyDict(Key("StopId") :> PyInt(7) @@ Key("RouteDirections") :> PyList(dirs))

JsonStopDepartures == {JsonStopDeparture(dirs) : dirs \in SeqsUpTo(JsonDirs, MaxItems)}

\* departures, XML
Leaf(tag, tok) == Element(tag, Str(tok), <<>>)

XmlDeps ==
  {Element("Departure", PyNone,
           <<Leaf("ETALocalTime", "2024-05-01T10:02:00"), Leaf("STALocalTime", "2024-05-01T10:00:00"),
             Leaf("StopStatusReportLabel", "On Time"), Leaf("Mode", "1"),
             Element("Trip", PyNone, <<Leaf("InternetServiceDesc", "Downtown"),
                                       Leaf("InternalSignDesc", "DT")>>)>>),
   Element("Departure", PyNone,
           <<Element("ETALocalTime", PyNone, <<>>), Leaf("STALocalTime", "2024-05-01T10:00:00"),
             Leaf("StopStatusReportLabel", "On Time"), Leaf("Mode", "0"),
             Element("Trip", PyNone, <<Leaf("InternalSignDesc", "DT")>>)>>),
   Element("Departure", PyNone, <<Leaf("STALocalTime", "2024-05-01T10:00:00")>>)}

XmlDir(route_id, done, deps) ==
  Element("RouteDirection", PyNone,
          <<Element("RouteId", PyStr(IntToText(route_id)), <<>>), Leaf("DirectionCode", "O"),
            Leaf("IsDone", done),
            Element("Departures", PyNone, deps)>>)

XmlDirs ==
  {XmlDir(10, "false", <<d>>) : d \in XmlDeps}
  \cup {XmlDir(11, "True", <<d>>) : d \in XmlDeps}
  \cup {XmlDir(12, "false", <<>>)}

XmlStopDeparture(dirs) ==
  Element("StopDeparture", PyNone, <<Leaf("StopId", "7"), Element("RouteDirections", PyNone, dirs)>>)

XmlStopDepartures == {XmlStopDeparture(dirs) : dirs \in SeqsUpTo(XmlDirs, MaxItems)}

XmlRoots ==
  XmlStopDepartures
  \cup {Element("ArrayOfStopDeparture", PyNone, <<e>>) : e \in XmlStopDepartures}
  \cup {Element("StopDeparture", PyNone, <<>>), Element("Error", Str("no such stop"), <<>>)}

DepartureBodies ==
  {JsonText(e) : e \in JsonStopDepartures}
  \cup {JsonText(PyList(<<e>>)) : e \in JsonStopDepartures}
  \cup {JsonText(PyDict(Key("RouteDirections") :> PyNone)),
        JsonText(PyList(<<PyInt(5)>>)),
        JsonText(JsonStopDeparture(<<PyInt(5)>>)),
        JsonText(JsonStopDeparture(<<PyDict(Key("Departures") :> PyInt(5))>>)),
        JsonText(JsonStopDeparture(<<JsonDir(10, FALSE, <<PyDict(Key("Trip") :> PyNone)>>)>>))}
  \cup {XmlText(TRUE, TRUE, FALSE, r) : r \in XmlRoots}
  \cup {XmlText(FALSE, FALSE, FALSE, XmlStopDeparture(<<d>>)) : d \in XmlDirs}
  \cup {XmlText(TRUE, TRUE, TRUE, XmlStopDeparture(<<d>>)) : d \in XmlDirs}
  \cup BadBodies

\* ------------------------------------------------------------------------
\* Departures payloads written twice, as JSON and as XML, from what they say:
\* per departure which optional fields it has, per route direction its route
\* id (0: none), direction code, done flag and departures
\* ------------------------------------------------------------------------
DepartureFacts ==
  {[mode |-> "1", trip |-> TRUE, internet |-> TRUE, sign |-> TRUE, eta |-> TRUE, sta |-> TRUE,
    status |-> TRUE],
   [mode |-> "0", trip |-> TRUE, internet |-> FALSE, sign |-> TRUE, eta |-> FALSE, sta |-> TRUE,
    status |-> TRUE],
   [mode |-> "absent", trip |-> FALSE, internet |-> FALSE, sign |-> FALSE, eta |-> FALSE,
    sta |-> TRUE, status |-> FALSE],
   [mode |-> "1", trip |-> TRUE, internet |-> FALSE, sign |-> FALSE, eta |-> TRUE, sta |-> FALSE,
    status |-> FALSE],
   [mode |-> "0", trip |-> TRUE, internet |-> TRUE, sign |-> FALSE, eta |-> FALSE, sta |-> FALSE,
    status |-> TRUE]}

\* two departures to tell the order by
FirstFacts == CHOOSE f \in DepartureFacts : f.mode = "1" /\ f.internet

SecondFacts == CHOOSE f \in DepartureFacts : f.mode = "0" /\ f.sign

DepartureFactLists ==
  {<<>>, <<FirstFacts, SecondFacts>>, <<SecondFacts, FirstFacts>>}
  \cup {<<f>> : f \in DepartureFacts}

DirectionFacts ==
  {[route |-> 10, code |-> TRUE, done |-> "false", deps |-> l] : l \in DepartureFactLists}
  \cup {[route |-> 11, code |-> TRUE, done |-> "true", deps |-> l] : l \in {<<>>, <<FirstFacts>>}}
  \cup {[route |-> 0, code |-> FALSE, done |-> "absent", deps |-> l] :
          l \in {<<FirstFacts>>, <<SecondFacts>>}}

\* a stop-departure entry: its route directions, or none at all (has = FALSE)
StopFacts ==
  {[has |-> TRUE, dirs |-> l] : l \in SeqsUpTo(DirectionFacts, MaxItems)}
  \cup {[has |-> FALSE, dirs |-> <<>>]}

OneDirection == [has |-> TRUE, dirs |-> <<[route |-> 10, code |-> TRUE, done |-> "false",
                                          deps |-> <<FirstFacts>>]>>]

OtherDirection == [has |-> TRUE, dirs |-> <<[route |-> 0, code |-> FALSE, done |-> "absent",
                                            deps |-> <<SecondFacts>>]>>]

\* a payload: one entry bare, or a list of entries
PayloadFacts ==
  {[wrapped |-> w, entries |-> <<e>>] : w \in BOOLEAN, e \in StopFacts}
  \cup {[wrapped |-> TRUE, entries |-> es] :
          es \in {<<>>, <<OneDirection, OtherDirection>>, <<OtherDirection, OneDirection>>}}

\* a dict of the fields that are present: seq of <<name, value, present>>
Fields(seq) ==
  [k \in {Key(seq[i][1]) : i \in {j \in 1..Len(seq) : seq[j][3]}} |->
     seq[CHOOSE i \in 1..Len(seq) : seq[i][3] /\ Key(seq[i][1]) = k][2]]

FactsJsonDep(f) ==
  PyDict(Fields(<<
    <<"Trip", PyDict(Fields(<<<<"InternetServiceDesc", Str("Downtown"), f.internet>>,
                              <<"InternalSignDesc", Str("DT"), f.sign>>>>)), f.trip>>,
    <<"ETALocalTime", Str("2024-05-01T10:02:00"), f.eta>>,
    <<"STALocalTime", Str("2024-05-01T10:00:00"), f.sta>>,
    <<"StopStatusReportLabel", Str("On Time"), f.status>>,
    <<"Mode", PyInt(IF f.mode = "1" THEN 1 ELSE 0), f.mode # "absent">>>>))

FactsJsonDir(d) ==
  PyDict(Fields(<<
    <<"RouteId", PyInt(d.route), d.route # 0>>,
    <<"DirectionCode", Str("O"), d.code>>,
    <<"IsDone", PyBool(d.done = "true"), d.done # "absent">>,
    <<"Departures", PyList([i \in 1..Len(d.deps) |-> FactsJsonDep(d.deps[i])]), TRUE>>>>))

FactsJsonStop(e) ==
  PyDict(Fields(<<
    <<"StopId", PyInt(7), TRUE>>,
    <<"RouteDirections", PyList([i \in 1..Len(e.dirs) |-> FactsJsonDir(e.dirs[i])]), e.has>>>>))

FactsJson(p) ==
  IF p.wrapped THEN PyList([i \in 1..Len(p.entries) |-> FactsJsonStop(p.entries[i])])
  ELSE FactsJsonStop(p.entries[1])

\* <<el>> when present
Opt(present, el) == IF present THEN <<el>> ELSE <<>>

FactsXmlDep(f) ==
  Element("Departure", PyNone,
          Opt(f.eta, Leaf("ETALocalTime", "2024-05-01T10:02:00"))
          \o Opt(f.sta, Leaf("STALocalTime", "2024-05-01T10:00:00"))
          \o Opt(f.status, Leaf("StopStatusReportLabel", "On Time"))
          \o Opt(f.mode # "absent", Leaf("Mode", f.mode))
          \o Opt(f.trip, Element("Trip", PyNone,
                                 Opt(f.internet, Leaf("InternetServiceDesc", "Downtown"))
                                 \o Opt(f.sign, Leaf("InternalSignDesc", "DT")))))

FactsXmlDir(d) ==
  Element("RouteDirection", PyNone,
          Opt(d.route # 0, Element("RouteId", PyStr(IntToText(d.route)), <<>>))
          \o Opt(d.code, Leaf("DirectionCode", "O"))
          \o Opt(d.done # "absent", Leaf("IsDone", d.done))
          \o <<Element("Departures", PyNone, [i \in 1..Len(d.deps) |-> FactsXmlDep(d.deps[i])])>>)

FactsXmlStop(e) ==
  Element("StopDeparture", PyNone,
          <<Leaf("StopId", "7")>>
          \o Opt(e.has, Element("RouteDirections", PyNone,
                                [i \in 1..Len(e.dirs) |-> FactsXmlDir(e.dirs[i])])))

FactsXml(p) ==
  IF p.wrapped
  THEN Element("ArrayOfStopDeparture", PyNone, [i \in 1..Len(p.entries) |-> FactsXmlStop(p.entries[i])])
  ELSE FactsXmlStop(p.entries[1])

\* JSON payloads with null, empty and false values
OddJsonPayloads ==
  {FactsJsonStop(OneDirection),
   PyDict(Key("RouteDirections") :> PyList(<<
     PyDict(Key("RouteId") :> PyInt(10) @@ Key("IsDone") :> PyNone
         @@ Key("Departures") :> PyList(<<
              PyDict(Key("Trip") :> PyDict(Key("InternetServiceDesc") :> PyNone
                                        @@ Key("InternalSignDesc") :> Str("DT"))
                  @@ Key("ETALocalTime") :> PyNone
                  @@ Key("Mode") :> PyNone),
              PyDict(Key("Trip") :> PyDict(Key("InternetServiceDesc") :> PyStr(<<>>)
                                        @@ Key("InternalSignDesc") :> PyStr(<<>>))
                  @@ Key("Mode") :> Str("0")),
              PyDict(Key("Trip") :> PyDict(EmptyMap))>>)),
     PyDict(Key("RouteId") :> PyInt(11) @@ Key("Departures") :> PyNone),
     PyDict(Key("RouteId") :> PyInt(12))>>))}

\* routes
JsonStop(id, name) == PyDict(Key("StopId") :> id @@ Key("Name") :> name)

JsonRoute(id, abbr, long_name, stops) ==
  PyDict(Key("RouteId") :> id @@ Key("RouteAbbreviation") :> abbr
      @@ Key("LongName") :> long_name @@ Key("Stops") :> PyList(stops))

JsonRoutes ==
  {JsonRoute(PyInt(10), Str("10"), Str("Main"), <<JsonStop(PyInt(7), Str("Main St"))>>),
   JsonRoute(PyInt(11), Str("10"), Str("Main"), <<>>),
   JsonRoute(PyInt(12), PyStr(<<>>), Str("Loop"),
             <<JsonStop(PyInt(7), Str("Main St")), JsonStop(PyInt(12), PyNone)>>),
   PyDict(Key("RouteId") :> PyInt(13) @@ Key("IsVisible") :> PyBool(FALSE)),
   PyDict(Key("LongName") :> Str("Ghost"))}

\* the routes of the lists _parse_routes_json is called with
ListedRoutes ==
  JsonRoutes
  \cup {PyDict(Key("RouteId") :> PyInt(14) @@ Key("ShortName") :> Str("14")
             @@ Key("LongName") :> Str("Hill") @@ Key("IsVisible") :> PyBool(TRUE)),
        PyDict(Key("RouteId") :> PyNone @@ Key("LongName") :> Str("Null")),
        JsonRoute(PyInt(15), Str("15"), Str("Elm"),
                  <<PyDict(EmptyMap), PyDict(Key("Name") :> Str("Elm St")),
                    JsonStop(PyInt(9), Str("Elm St")), PyDict(Key("StopId") :> PyInt(8))>>)}

RouteBodies ==
  {JsonText(PyList(l)) : l \in SeqsUpTo(JsonRoutes, MaxItems)}
  \cup {JsonText(PyList(<<PyInt(5)>>)),
        JsonText(PyList(<<PyDict(Key("RouteId") :> PyInt(10) @@ Key("Stops") :> PyNone)>>)),
        JsonText(PyDict(EmptyMap))}
  \cup BadBodies

\* ------------------------------------------------------------------------
\* The client operations as processes.  A call is suspended where the code
\* awaits: while its GET is in flight (pc = "get") and while it sleeps
\* before the next attempt (pc = "sleep").
\* ------------------------------------------------------------------------
VARIABLES
  client,       \* AvailClient.base_url of the two client objects
  call,         \* per caller: the operation it has in flight or has finished,
                \* with the I/O it issued (io), what _get_text gave (got) and
                \* what the operation gave its caller (result)
  entry,        \* the config entry the sensor platform was set up from
  coordinator,  \* per coordinator: data and last_update_success
  flow          \* the ConfigFlow object: its attributes, the form it shows and
                \* the step handler that is waiting for the client

vars == <<client, call, entry, coordinator, flow>>

\* _get_text: tries = 3
tries == 3

\* _get_text: delay = 0.5, in tenths of a second
InitialDelay == 5

DISCOVERY_URL ==
  PyStr(<<"https:", "//", "mobilegateway.rideralerts.com", "/", "gateway", "/", "TransitAuthorities">>)

Coordinators == {"stop", "alerts", "route_alerts"}

\* two coroutines that call the client API directly
DirectCallers == {"direct", "other"}

Callers == DirectCallers \cup Coordinators

\* the three coordinators share the client made by async_setup_entry, the
\* direct callers share theirs
ClientOf(w) == IF w \in Coordinators THEN "sensor" ELSE "direct"

Ops == {"get_agencies", "get_routes", "get_departures", "get_stop_info", "get_alerts",
        "get_route_details"}

IdOps == {"get_departures", "get_stop_info", "get_route_details"}

\* the argument values a call of op is tried with
Args(op) == IF op = "get_agencies" THEN {DISCOVERY_URL} ELSE IF op \in IdOps THEN Ids ELSE {PyNone}

\* what the upstream may answer to a GET of op's endpoint
Bodies(op) ==
  CASE op = "get_agencies" -> DiscoveryBodies
    [] op = "get_routes" -> RouteBodies
    [] op = "get_departures" -> DepartureBodies
    [] op = "get_stop_info" -> StopInfoBodies
    [] op = "get_alerts" -> AlertBodies
    [] op = "get_route_details" -> RouteDetailBodies
    [] OTHER -> {}

\* what the upstream answers to the polls of the coordinators
PollBodies(op) ==
  CASE op = "get_departures" ->
         {JsonText(JsonStopDeparture(<<d>>)) : d \in {JsonDir(10, FALSE, <<x>>) : x \in JsonDeps}}
         \cup {JsonText(JsonStopDeparture(<<>>)), JsonText(PyList(<<PyInt(5)>>)), OtherText}
         \cup {XmlText(TRUE, TRUE, FALSE, XmlStopDeparture(<<d>>)) :
                 d \in {XmlDir(11, "false", <<x>>) : x \in XmlDeps}}
    [] op = "get_alerts" ->
         {JsonText(PyList(<<Message(1)>>)), JsonText(PyList(<<Message(1), Message(2)>>)),
          JsonText(PyList(<<PyInt(5)>>)), OtherText}
    [] op = "get_route_details" ->
         {JsonText(PyDict(Key("Messages") :> PyList(<<Message(2)>>))),
          JsonText(PyList(<<PyDict(Key("Messages") :> PyList(<<Message(1)>>))>>)),
          JsonText(PyInt(5)), OtherText}
    [] OTHER -> {}

\* the exceptions session.get / raise_for_status raise that _get_text
\* catches: aiohttp.ClientError (ClientResponseError is the one of a
\* non-2xx status) and asyncio.TimeoutError
CaughtErrors == {"ClientConnectionError", "ClientResponseError", "TimeoutError"}

EvGet(url) == [ev |-> "GET", url |-> url]

EvSleep(delay) == [ev |-> "sleep", delay |-> delay]

NoResult == [kind |-> "none"]

Idle ==
  [pc |-> "idle", op |-> "", arg |-> PyNone, url |-> <<>>, attempt |-> 0, delay |-> 0,
   io |-> <<>>, got |-> NoResult, result |-> NoResult]

\* the endpoint of op under base_url (lines 102, 114, 140, 151, 163)
Endpoint(op, base_url, id) ==
  base_url \o <<"/", "rest", "/">>
  \o (CASE op = "get_routes" -> <<"RouteDetails", "/", "GetAllRouteDetails">>
        [] op = "get_departures" -> <<"StopDepartures", "/", "Get", "/">> \o id
        [] op = "get_stop_info" -> <<"Stops", "/", "Get", "/">> \o id
        [] op = "get_alerts" -> <<"PublicMessages", "/", "GetCurrentMessages">>
        [] op = "get_route_details" -> <<"RouteDetails", "/", "Get", "/">> \o id)

IdField(op) == IF op = "get_route_details" THEN "route_id" ELSE "stop_id"

\* the statements of an operation before its try block: the URL to fetch,
\* or the ValueError raised
Preflight(op, base_url, arg) ==
  IF op = "get_agencies" THEN Return(arg.s)
  ELSE IF ~Truthy(base_url) THEN Raise("ValueError", "base_url is required")
  ELSE IF op \in IdOps
  THEN LET id == _validate_numeric_id(arg, IdField(op))
       IN IF Raised(id) THEN id ELSE Return(Endpoint(op, base_url.s, id.value.s))
  ELSE Return(Endpoint(op, base_url.s, <<>>))

\* the try block of an operation and its handlers, given the outcome of
\* _get_text
Operation(op, arg, got) ==
  CASE op = "get_agencies" -> get_agencies(got)
    [] op = "get_routes" -> get_routes(got)
    [] op = "get_departures" -> get_departures(got)
    [] op = "get_stop_info" -> get_stop_info(_validate_numeric_id(arg, "stop_id").value.s, got)
    [] op = "get_alerts" -> get_alerts(got)
    [] op = "get_route_details" -> get_route_details(got)

\* a refresh that keeps the data it had when the new result is empty
RefreshedKeepingLast(c, result) ==
  IF Raised(result) THEN [c EXCEPT !.last_update_success = FALSE]
  ELSE IF result.value = PyList(<<>>) THEN [c EXCEPT !.last_update_success = TRUE]
  ELSE [data |-> result.value, last_update_success |-> TRUE]

\* DataUpdateCoordinator refresh around _async_update_data: an exception of
\* the client becomes UpdateFailed and leaves data as it was
Refreshed(c, result) ==
  IF Raised(result) THEN [c EXCEPT !.last_update_success = FALSE]
  ELSE [data |-> result.value, last_update_success |-> TRUE]

\* the caller's continuation when its call ends with result: a coordinator
\* stores the data; the finished call is kept for inspection until the next
Finish(w, finished) ==
  /\ call' = [call EXCEPT ![w] = finished]
  /\ coordinator' = IF w \in Coordinators
                    THEN [coordinator EXCEPT ![w] = Refreshed(@, finished.result)]
                    ELSE coordinator

\* w has no call in flight
Ready(w) == call[w].pc \notin {"get", "sleep"}

\* AvailClient(session, base_url) by the direct caller, before it calls an
\* operation (base_url is assigned in __init__ only); a ValueError of
\* _clean_base_url leaves it with the client it had
NewClient(raw) ==
  /\ call["direct"].pc = "idle"
  /\ ~Raised(_clean_base_url(raw))
  /\ client' = [client EXCEPT !["direct"] = _clean_base_url(raw).value]
  /\ UNCHANGED <<call, entry, coordinator, flow>>

\* w calls op(arg): the statements up to the first await
Begin(w, op, arg) ==
  LET pre == Preflight(op, client[ClientOf(w)], arg)
      started == [Idle EXCEPT !.op = op, !.arg = arg]
  IN /\ Ready(w)
     /\ IF Raised(pre)
        THEN Finish(w, [started EXCEPT !.pc = "done", !.result = pre])
        ELSE /\ call' = [call EXCEPT ![w] =
                           [started EXCEPT !.pc = "get", !.url = pre.value, !.attempt = 1,
                                           !.delay = InitialDelay, !.io = <<EvGet(pre.value)>>]]
             /\ UNCHANGED coordinator
     /\ UNCHANGED <<client, entry, flow>>

Call(op, arg) == Begin("direct", op, arg)

\* _async_update_data of coordinator w
PollOp(w) ==
  CASE w = "stop" -> "get_departures"
    [] w = "alerts" -> "get_alerts"
    [] w = "route_alerts" -> "get_route_details"

PollArg(w) ==
  CASE w = "stop" -> entry.stop_id
    [] w = "alerts" -> PyNone
    [] w = "route_alerts" -> entry.route_id

\* async_setup_entry creates a coordinator once the first refresh of the one
\* before it succeeded, the route alerts coordinator only with a route id
\* (sensor.py lines 48-66, for entities not yet registered)
Created(w) ==
  CASE w = "stop" -> TRUE
    [] w = "alerts" -> coordinator["stop"].data # PyNone
    [] w = "route_alerts" ->
         /\ Truthy(entry.route_id)
         /\ coordinator["stop"].data # PyNone
         /\ coordinator["alerts"].data # PyNone

\* a refresh of coordinator w: its first one or a scheduled one
Poll(w) ==
  /\ Created(w)
  /\ Begin(w, PollOp(w), PollArg(w))

\* GetFail with "attempt == tries" taken for "attempt == tries - 1"
GetFailOneShort(w, exc) ==
  LET c == call[w]
  IN /\ c.pc = "get"
     /\ IF c.attempt >= tries - 1
        THEN Finish(w, [c EXCEPT !.pc = "done", !.got = Raise(exc, "request failed"),
                                 !.result = Operation(c.op, c.arg, Raise(exc, "request failed"))])
        ELSE /\ call' = [call EXCEPT ![w] = [c EXCEPT !.pc = "sleep", !.io = Append(@, EvSleep(c.delay))]]
             /\ UNCHANGED coordinator
     /\ UNCHANGED <<client, entry, flow>>

\* the GET of w fails with an exception _get_text catches
GetFail(w, exc) ==
  LET c == call[w]
  IN /\ c.pc = "get"
     /\ IF c.attempt = tries
        THEN Finish(w, [c EXCEPT !.pc = "done", !.got = Raise(exc, "request failed"),
                                 !.result = Operation(c.op, c.arg, Raise(exc, "request failed"))])
        ELSE /\ call' = [call EXCEPT ![w] = [c EXCEPT !.pc = "sleep", !.io = Append(@, EvSleep(c.delay))]]
             /\ UNCHANGED coordinator
     /\ UNCHANGED <<client, entry, flow>>

\* Wake with "delay *= 2" left out
WakeSameDelay(w) ==
  LET c == call[w]
  IN /\ c.pc = "sleep"
     /\ call' = [call EXCEPT ![w] = [c EXCEPT !.pc = "get", !.attempt = c.attempt + 1,
                                              !.io = Append(@, EvGet(c.url))]]
     /\ UNCHANGED <<client, entry, coordinator, flow>>

\* Wake with the delay kept on the client: "delay *= 2" doubles the delay of
\* every call in flight
WakeSharedDelay(w) ==
  LET c == call[w]
  IN /\ c.pc = "sleep"
     /\ call' = [v \in Callers |->
                   IF v = w
                   THEN [c EXCEPT !.pc = "get", !.attempt = c.attempt + 1, !.delay = c.delay * 2,
                                  !.io = Append(@, EvGet(c.url))]
                   ELSE IF call[v].pc \in {"get", "sleep"}
                   THEN [call[v] EXCEPT !.delay = @ * 2]
                   ELSE call[v]]
     /\ UNCHANGED <<client, entry, coordinator, flow>>

\* asyncio.sleep(delay) is over: the next attempt
Wake(w) ==
  LET c == call[w]
  IN /\ c.pc = "sleep"
     /\ call' = [call EXCEPT ![w] = [c EXCEPT !.pc = "get", !.delay = c.delay * 2,
                                              !.attempt = c.attempt + 1,
                                              !.io = Append(@, EvGet(c.url))]]
     /\ UNCHANGED <<client, entry, coordinator, flow>>

\* GetOk with a body that is not JSON handled like a failed attempt
GetOkRetryingDecode(w, text) ==
  LET c == call[w]
  IN /\ c.pc = "get"
     /\ IF Raised(json_loads(text)) /\ c.op # "get_departures" /\ c.attempt < tries
        THEN /\ call' = [call EXCEPT ![w] = [c EXCEPT !.pc = "sleep", !.io = Append(@, EvSleep(c.delay))]]
             /\ UNCHANGED coordinator
        ELSE Finish(w, [c EXCEPT !.pc = "done", !.got = Return(text),
                                 !.result = Operation(c.op, c.arg, Return(text))])
     /\ UNCHANGED <<client, entry, flow>>

\* the GET of w is answered 2xx with a body
GetOk(w, text) ==
  LET c == call[w]
  IN /\ c.pc = "get"
     /\ Finish(w, [c EXCEPT !.pc = "done", !.got = Return(text),
                            !.result = Operation(c.op, c.arg, Return(text))])
     /\ UNCHANGED <<client, entry, flow>>

\* the GET of w is answered 2xx and response.text() cannot decode the bytes:
\* UnicodeDecodeError is not caught by _get_text
GetUndecodable(w) ==
  LET c == call[w]
  IN /\ c.pc = "get"
     /\ Finish(w, [c EXCEPT !.pc = "done", !.got = Raise("UnicodeDecodeError", "invalid byte"),
                            !.result = Operation(c.op, c.arg, Raise("UnicodeDecodeError", "invalid byte"))])
     /\ UNCHANGED <<client, entry, flow>>

NoEntry == [base_url |-> PyNone, stop_id |-> PyNone, route_id |-> PyNone]

NoData == [data |-> PyNone, last_update_success |-> TRUE]

\* ConfigFlow.__init__ (config_flow.py lines 17-25), before any step: no
\* form is shown, no handler is waiting, no entry data
NoFlow ==
  [step |-> "init", awaiting |-> "", choices |-> {}, errors |-> "", user_input |-> PyNone,
   found_agencies |-> PyDict(EmptyMap), selected_agency |-> PyNone,
   selected_base_url |-> PyNone, selected_route_id |-> PyNone,
   selected_route_name |-> PyNone, routes_map |-> PyDict(EmptyMap),
   stops_map |-> PyDict(EmptyMap), data |-> PyNone]

\* a direct caller of the client API, with a client made by AvailClient(session)
Init ==
  /\ client = [k \in {"direct", "sensor"} |-> PyNone]
  /\ call = [w \in Callers |-> Idle]
  /\ entry = NoEntry
  /\ coordinator = [w \in Coordinators |-> NoData]
  /\ flow = NoFlow

Next ==
  \/ \E raw \in RawBaseUrls : NewClient(raw)
  \/ \E op \in Ops : \E arg \in Args(op) : Call(op, arg)
  \/ \E exc \in CaughtErrors : GetFail("direct", exc)
  \/ Wake("direct")
  \/ \E text \in Bodies(call["direct"].op) : GetOk("direct", text)
  \/ GetUndecodable("direct")

Spec == Init /\ [][Next]_vars

\* the config entries the platform is set up from (sensor.py lines 36-44)
Entries ==
  [base_url : {PyStr(<<"http:", "//", "host", "/">>), PyStr(<<>>)},
   stop_id : {Str("7"), Str("None")},
   route_id : {PyNone, PyStr(<<"1", "0">>)}]

InitPoll ==
  /\ entry \in Entries
  /\ client = [k \in {"direct", "sensor"} |->
                 IF k = "sensor" THEN _clean_base_url(entry.base_url).value ELSE PyNone]
  /\ call = [w \in Callers |-> Idle]
  /\ coordinator = [w \in Coordinators |-> NoData]
  /\ flow = NoFlow

NextPoll ==
  \E w \in Coordinators :
    \/ Poll(w)
    \/ \E exc \in CaughtErrors : GetFail(w, exc)
    \/ Wake(w)
    \/ \E text \in PollBodies(call[w].op) : GetOk(w, text)
    \/ GetUndecodable(w)

SpecPoll == InitPoll /\ [][NextPoll]_vars

\* two coroutines on one client: the operations they call
PairCalls ==
  {<<"get_departures", Str("7")>>, <<"get_departures", PyInt(12)>>, <<"get_alerts", PyNone>>}

InitPair ==
  /\ client = [k \in {"direct", "sensor"} |->
                 IF k = "direct" THEN _clean_base_url(PyStr(<<"http:", "//", "host", "/">>)).value
                 ELSE PyNone]
  /\ call = [w \in Callers |-> Idle]
  /\ entry = NoEntry
  /\ coordinator = [w \in Coordinators |-> NoData]
  /\ flow = NoFlow

NextPair ==
  \E w \in DirectCallers :
    \/ \E oa \in PairCalls : Begin(w, oa[1], oa[2])
    \/ \E exc \in CaughtErrors : GetFail(w, exc)
    \/ Wake(w)
    \/ \E text \in PollBodies(call[w].op) : GetOk(w, text)
    \/ GetUndecodable(w)

SpecPair == InitPair /\ [][NextPair]_vars

\* ------------------------------------------------------------------------
\* The module-level functions and the parsers called on their own: a
\* caller holds the argument it was given (pc = "idle") and then the outcome
\* (pc = "done")
\* ------------------------------------------------------------------------
Given(fn, arg) == [Idle EXCEPT !.op = fn, !.arg = arg]

\* the arguments of the two direct callers
Jobs ==
  {<<Given("_parse_departures_json", FactsJson(p)), Given("_parse_departures_xml", FactsXml(p))>> :
     p \in PayloadFacts}
  \cup {<<Given("_parse_departures_json", d), Idle>> : d \in OddJsonPayloads}
  \cup {<<Given("_parse_routes_json", PyList(l)), Idle>> : l \in SeqsUpTo(ListedRoutes, MaxItems)}
  \cup {<<Given("_parse_routes_json", PyDict(EmptyMap)), Idle>>}
  \cup {<<Given("_clean_base_url", u), Idle>> : u \in CleanInputs}
  \cup {<<Given("_validate_numeric_id", PyTuple(<<v, Str(f)>>)), Idle>> :
          v \in IdValues, f \in IdFields}
  \cup {<<Given("_validate_numeric_id", PyTuple(<<n[1], Str(f)>>)),
          Given("_validate_numeric_id", PyTuple(<<n[2], Str(f)>>))>> :
          n \in SameNumbers, f \in IdFields}

InitFn ==
  /\ client = [k \in {"direct", "sensor"} |-> PyNone]
  /\ \E job \in Jobs :
       call = [w \in Callers |->
                 IF w = "direct" THEN job[1] ELSE IF w = "other" THEN job[2] ELSE Idle]
  /\ entry = NoEntry
  /\ coordinator = [w \in Coordinators |-> NoData]
  /\ flow = NoFlow

\* w calls fn on its argument, with the given outcome
Applied(w, fn, outcome) ==
  /\ call[w].pc = "idle"
  /\ call[w].op = fn
  /\ call' = [call EXCEPT ![w] = [@ EXCEPT !.pc = "done", !.result = outcome]]
  /\ UNCHANGED <<client, entry, coordinator, flow>>

ParseDeparturesJson(w) ==
  Applied(w, "_parse_departures_json", _parse_departures_json(call[w].arg))

ParseDeparturesXml(w) ==
  Applied(w, "_parse_departures_xml", _parse_departures_xml(call[w].arg))

ParseRoutesJson(w) ==
  Applied(w, "_parse_routes_json", _parse_routes_json(call[w].arg))

CleanBaseUrl(w) ==
  Applied(w, "_clean_base_url", _clean_base_url(call[w].arg))

\* the other caller cleans the value _clean_base_url returned to the first
CleanBaseUrlAgain ==
  /\ call["direct"].pc = "done"
  /\ call["direct"].op = "_clean_base_url"
  /\ ~Raised(call["direct"].result)
  /\ call["other"] = Idle
  /\ call' = [call EXCEPT !["other"] =
                [Given("_clean_base_url", call["direct"].result.value) EXCEPT
                   !.pc = "done",
                   !.result = _clean_base_url(call["direct"].result.value)]]
  /\ UNCHANGED <<client, entry, coordinator, flow>>

\* the argument is the pair (value, field)
ValidateNumericId(w) ==
  Applied(w, "_validate_numeric_id",
          _validate_numeric_id(call[w].arg.items[1], call[w].arg.items[2].s[1]))

NextFn ==
  \/ \E w \in DirectCallers :
       \/ ParseDeparturesJson(w)
       \/ ParseDeparturesXml(w)
       \/ ParseRoutesJson(w)
       \/ CleanBaseUrl(w)
       \/ ValidateNumericId(w)
  \/ CleanBaseUrlAgain

SpecFn == InitFn /\ [][NextFn]_vars

\* ------------------------------------------------------------------------
\* ConfigFlow (config_flow.py): the step handlers, each cut at its awaits.
\* The client calls of the flow are the calls of the caller "direct"; a
\* form's choices are kept as a set (their order is not modelled).
\* ------------------------------------------------------------------------
MANUAL_ENTRY == Str("Manual Entry")

RECURSIVE RPartitionHead(_)
\* label.rpartition(" (")[0]: what is before the last " (", nothing without one
RPartitionHead(s) ==
  IF s = <<>> THEN <<>>
  ELSE IF s[Len(s)] = " (" THEN SubSeq(s, 1, Len(s) - 1)
  ELSE RPartitionHead(SubSeq(s, 1, Len(s) - 1))

\* client.op(arg) up to its first await, on a client with base_url
Started(op, base_url, arg) ==
  IF Raised(Preflight(op, base_url, arg))
  THEN [Idle EXCEPT !.op = op, !.arg = arg, !.pc = "done", !.result = Preflight(op, base_url, arg)]
  ELSE [Idle EXCEPT !.op = op, !.arg = arg, !.pc = "get",
                    !.url = Preflight(op, base_url, arg).value, !.attempt = 1,
                    !.delay = InitialDelay,
                    !.io = <<EvGet(Preflight(op, base_url, arg).value)>>]

\* return self.async_show_form(step_id=..., ...) of a handler whose client
\* has base_url
ShowForm(f, base_url, step_id, choices, errors) ==
  /\ flow' = [f EXCEPT !.step = step_id, !.choices = choices, !.errors = errors,
                       !.awaiting = "", !.user_input = PyNone]
  /\ client' = [client EXCEPT !["direct"] = base_url]
  /\ UNCHANGED <<call, entry, coordinator>>

\* the flow ends without an entry: "abort" by _abort_if_unique_id_configured,
\* "error" by an exception that leaves the handler
FlowEnds(f, base_url, how) == ShowForm(f, base_url, how, {}, "")

\* "await client.op(arg)" in handler
AwaitClient(f, base_url, handler, op, arg) ==
  /\ flow' = [f EXCEPT !.awaiting = handler]
  /\ client' = [client EXCEPT !["direct"] = base_url]
  /\ call' = [call EXCEPT !["direct"] = Started(op, base_url, arg)]
  /\ UNCHANGED <<entry, coordinator>>

\* return self.async_create_entry(title=..., data=data)
CreateEntry(f, base_url, data) ==
  /\ flow' = [f EXCEPT !.step = "create_entry", !.choices = {}, !.errors = "",
                       !.awaiting = "", !.user_input = PyNone, !.data = data]
  /\ entry' = [base_url |-> data.base_url, stop_id |-> data.stop_id, route_id |-> data.route_id]
  /\ client' = [client EXCEPT !["direct"] = base_url]
  /\ UNCHANGED <<call, coordinator>>

\* config_flow.py lines 138-153 and 180-184: async_step_manual without input
\* or after its try block failed
ShowManual(f, base_url, errors) == ShowForm(f, base_url, "manual", {}, errors)

\* lines 129-136: the stop form of the selected route
ShowStops(f, base_url) ==
  ShowForm(f, base_url, "stop",
           DOMAIN DictGet(f.stops_map, f.selected_route_id, PyDict(EmptyMap)).fields, "")

\* lines 47-59
AgencyForm(f, base_url) ==
  IF ~Truthy(f.found_agencies) THEN ShowManual(f, base_url, "")
  ELSE ShowForm(f, base_url, "user", {MANUAL_ENTRY} \cup DOMAIN f.found_agencies.fields, "")

\* the route form shown although the routes mapping is empty
RouteFormAlways(f, base_url, errors) ==
  ShowForm(f, base_url, "route", DOMAIN f.routes_map.fields, errors)

\* lines 81-99
RouteForm(f, base_url, errors) ==
  IF ~Truthy(f.routes_map) THEN ShowManual(f, base_url, "")
  ELSE ShowForm(f, base_url, "route", DOMAIN f.routes_map.fields, errors)

\* lines 75-99
RouteFetch(f, base_url, errors) ==
  IF ~Truthy(f.routes_map)
  THEN AwaitClient([f EXCEPT !.errors = errors], base_url, "route", "get_routes", PyNone)
  ELSE RouteForm(f, base_url, errors)

\* the route step taking any submitted label as a route
RouteSelectedUnchecked(f, base_url, route_label) ==
  IF route_label # PyNone
  THEN ShowStops([f EXCEPT !.selected_route_id = DictGet(f.routes_map, route_label, route_label),
                           !.selected_route_name = route_label], base_url)
  ELSE RouteFetch(f, base_url, "")

\* lines 67-74, with the client of line 65
RouteSelected(f, base_url, route_label) ==
  IF route_label # PyNone /\ route_label \in DOMAIN f.routes_map.fields
  THEN ShowStops([f EXCEPT !.selected_route_id = f.routes_map.fields[route_label],
                           !.selected_route_name = route_label], base_url)
  ELSE RouteFetch(f, base_url, IF route_label # PyNone THEN "unknown" ELSE "")

\* async_step_route(user_input), route_label being user_input.get("route")
\* (None without input); line 65 raises when the base URL is not valid
async_step_route(f, route_label) ==
  IF Raised(_clean_base_url(f.selected_base_url)) THEN FlowEnds(f, client["direct"], "error")
  ELSE RouteSelected(f, _clean_base_url(f.selected_base_url).value, route_label)

\* async_step_user(user_input), selection being user_input.get("agency_name")
\* (None without input); the client of line 31 has no base URL
async_step_user(f, selection) ==
  IF selection = MANUAL_ENTRY THEN ShowManual(f, PyNone, "")
  ELSE IF selection # PyNone /\ selection \in DOMAIN f.found_agencies.fields
  THEN async_step_route([f EXCEPT !.selected_agency = selection,
                                  !.selected_base_url = f.found_agencies.fields[selection]],
                        PyNone)
  ELSE IF ~Truthy(f.found_agencies)
  THEN AwaitClient(f, PyNone, "user", "get_agencies", DISCOVERY_URL)
  ELSE AgencyForm(f, PyNone)

\* lines 117-127: the entry data of the stop step
StopEntry(f, stop_label, stop_id) ==
  [agency_name |-> f.selected_agency, base_url |-> f.selected_base_url,
   stop_id |-> PyStr(PyStrOf(stop_id)), stop_name |-> PyStr(RPartitionHead(stop_label.s)),
   route_id |-> PyStr(PyStrOf(f.selected_route_id)), route_name |-> f.selected_route_name]

\* lines 108-127, stop_id being route_stops.get(stop_label); configured says
\* whether an entry with the unique id exists already
StopChosen(f, stop_label, stop_id, configured) ==
  IF ~Truthy(stop_id) THEN ShowStops(f, client["direct"])
  ELSE IF configured THEN FlowEnds(f, client["direct"], "abort")
  ELSE CreateEntry(f, client["direct"], StopEntry(f, stop_label, stop_id))

\* async_step_stop(user_input) with input, stop_label being
\* user_input.get("stop")
async_step_stop(f, stop_label, configured) ==
  StopChosen(f, stop_label,
             DictGet(DictGet(f.stops_map, f.selected_route_id, PyDict(EmptyMap)),
                     stop_label, PyNone),
             configured)

\* async_step_manual(user_input) with input, up to its first await; line 157
\* is outside the try block
async_step_manual(f, user_input) ==
  IF Raised(_clean_base_url(user_input.base_url)) THEN FlowEnds(f, client["direct"], "error")
  ELSE AwaitClient([f EXCEPT !.user_input = user_input],
                   _clean_base_url(user_input.base_url).value,
                   "manual.get_departures", "get_departures", user_input.stop_id)

\* lines 169-170: user_input.copy() with the stop name
ManualEntry(user_input, stop_name) ==
  [agency_name |-> user_input.agency_name, base_url |-> user_input.base_url,
   stop_id |-> user_input.stop_id, stop_name |-> stop_name,
   route_id |-> PyNone, route_name |-> PyNone]

\* the flow is waiting in handler and the client call has ended
Resumes(handler) == flow.awaiting = handler /\ call["direct"].pc = "done"

\* line 45 has its value
ResumeUser ==
  /\ Resumes("user")
  /\ AgencyForm([flow EXCEPT !.found_agencies = call["direct"].result.value], client["direct"])

\* lines 76-79 have their value or their exception
ResumeRoute ==
  /\ Resumes("route")
  /\ IF Raised(call["direct"].result) THEN ShowManual(flow, client["direct"], "")
     ELSE RouteForm([flow EXCEPT !.routes_map = call["direct"].result.value.items[1],
                                 !.stops_map = call["direct"].result.value.items[2]],
                    client["direct"], flow.errors)

\* line 160 has its value or its exception
ResumeDepartures ==
  /\ Resumes("manual.get_departures")
  /\ IF Raised(call["direct"].result) THEN ShowManual(flow, client["direct"], "cannot_connect")
     ELSE AwaitClient(flow, client["direct"], "manual.get_stop_info", "get_stop_info",
                      flow.user_input.stop_id)

\* line 163 has its value or its exception; AbortFlow of line 167 is an
\* Exception and is caught by line 177
ResumeStopInfo(configured) ==
  /\ Resumes("manual.get_stop_info")
  /\ IF Raised(call["direct"].result) \/ configured
     THEN ShowManual(flow, client["direct"], "cannot_connect")
     ELSE CreateEntry(flow, client["direct"],
                      ManualEntry(flow.user_input, call["direct"].result.value))

\* the form shown is submitted, or the flow is started
Shows(step_id) == flow.step = step_id /\ flow.awaiting = ""

FlowStart == Shows("init") /\ async_step_user(flow, PyNone)

SubmitUser(selection) == Shows("user") /\ async_step_user(flow, selection)

SubmitRoute(route_label) == Shows("route") /\ async_step_route(flow, route_label)

SubmitStop(stop_label, configured) == Shows("stop") /\ async_step_stop(flow, stop_label, configured)

SubmitManual(user_input) == Shows("manual") /\ async_step_manual(flow, user_input)

\* what is submitted: a choice of the form or a label that is not offered
NotOffered == Str("Nowhere")

Submitted == flow.choices \cup {NotOffered}

ManualInputs ==
  [t : {"input"}, agency_name : {Str("Metro")},
   base_url : {PyStr(<<"http:", "//", "host">>), PyStr(<<"ftp:", "//", "host">>), PyStr(<<>>)},
   stop_id : {Str("7"), PyStr(<<"1", "2", "a">>)}]

\* what the upstream answers during a flow
FlowBodies(op) ==
  CASE op = "get_agencies" ->
         {JsonText(PyList(<<AuthorityOf(Str("Metro"), PyStr(<<"http:", "//", "host", "/", "rest">>)),
                            AuthorityOf(Str("Valley"), PyStr(<<"https:", "//", "host", "/", "a", "/">>))>>)),
          JsonText(PyList(<<AuthorityOf(Str("Metro"), PyStr(<<"/", "rest">>))>>)),
          JsonText(PyList(<<>>)), JsonText(PyDict(EmptyMap)), OtherText}
    [] op = "get_routes" ->
         {JsonText(PyList(l)) :
            l \in {<<>>, <<PyInt(5)>>,
                   <<PyDict(Key("RouteId") :> PyInt(13) @@ Key("IsVisible") :> PyBool(FALSE))>>,
                   <<JsonRoute(PyInt(10), Str("10"), Str("Main"), <<JsonStop(PyInt(7), Str("Main St"))>>),
                     JsonRoute(PyInt(11), Str("10"), Str("Main"), <<>>)>>,
                   <<JsonRoute(PyInt(12), PyStr(<<>>), Str("Loop"),
                               <<JsonStop(PyInt(7), Str("Main St")), JsonStop(PyInt(9), Str("Elm St"))>>),
                     JsonRoute(PyInt(10), Str("10"), Str("Main"), <<JsonStop(PyInt(7), Str("Main St"))>>)>>}}
         \cup {OtherText}
    [] op = "get_departures" ->
         {JsonText(JsonStopDeparture(<<JsonDir(10, FALSE, <<PyDict(EmptyMap)>>)>>)),
          JsonText(PyList(<<PyInt(5)>>)), OtherText}
    [] op = "get_stop_info" ->
         {JsonText(PyDict(Key("Name") :> Str("Main St"))), JsonText(PyDict(EmptyMap)), OtherText}
    [] OTHER -> {}

InitFlow == Init

NextFlow ==
  \/ FlowStart
  \/ \E selection \in Submitted : SubmitUser(selection)
  \/ \E route_label \in Submitted : SubmitRoute(route_label)
  \/ \E stop_label \in Submitted : \E configured \in BOOLEAN : SubmitStop(stop_label, configured)
  \/ \E user_input \in ManualInputs : SubmitManual(user_input)
  \/ ResumeUser
  \/ ResumeRoute
  \/ ResumeDepartures
  \/ \E configured \in BOOLEAN : ResumeStopInfo(configured)
  \/ \E exc \in CaughtErrors : GetFail("direct", exc)
  \/ Wake("direct")
  \/ \E text \in FlowBodies(call["direct"].op) : GetOk("direct", text)
  \/ GetUndecodable("direct")

SpecFlow == InitFlow /\ [][NextFlow]_vars

\* ------------------------------------------------------------------------
\* Properties
\* ------------------------------------------------------------------------
\* the call of the direct caller
direct == call["direct"]

Finished(c) == c.pc = "done"

\* the call went past its checks and issued a request
Fetched(c) == Finished(c) /\ c.io # <<>>

\* _get_text returned a body
GotText(c) == Fetched(c) /\ c.got.kind = "return"

\* _get_text raised the failure of its last attempt
GotFailure(c) == Fetched(c) /\ c.got.kind = "raise" /\ c.got.exc \in CaughtErrors

NumGets(io) == Len(SelectSeq(io, LAMBDA e : e.ev = "GET"))

NumSleeps(io) == Len(SelectSeq(io, LAMBDA e : e.ev = "sleep"))

\* C1: a call whose GET is answered on attempt n has issued exactly n
\* requests, all for the same URL, with a sleep of 0.5s before the second
\* and of 1.0s before the third and no other sleep: answered on the third
\* attempt it has slept 0.5s then 1.0s; answered earlier it made no further
\* request or sleep.  The body given to the operation is that answer.
C1_RetrySchedule ==
  GotText(direct) =>
    /\ direct.attempt = 1 => direct.io = <<EvGet(direct.url)>>
    /\ direct.attempt = 2 => direct.io = <<EvGet(direct.url), EvSleep(5), EvGet(direct.url)>>
    /\ direct.attempt = 3 =>
         direct.io = <<EvGet(direct.url), EvSleep(5), EvGet(direct.url), EvSleep(10),
                       EvGet(direct.url)>>
    /\ direct.attempt \in 1..3
    /\ direct.got.value \in Bodies(direct.op)

C1_Witness ==
  /\ GotText(direct)
  /\ direct.attempt = 3
  /\ NumSleeps(direct.io) = 2
  /\ direct.result.kind = "return"

\* C2: a transport error, a timeout or a non-2xx status reaches the caller of
\* _get_text only as the failure of the third attempt: by then exactly 3
\* requests and 2 sleeps were made, and the last thing done is a request.
C2_RetryExhaustion ==
  /\ (Fetched(direct) /\ direct.got.kind = "raise" /\ direct.got.exc \in CaughtErrors) =>
       /\ direct.attempt = 3
       /\ NumGets(direct.io) = 3
       /\ NumSleeps(direct.io) = 2
       /\ direct.io[Len(direct.io)].ev = "GET"
  /\ direct.pc \in {"get", "sleep"} => direct.got = NoResult /\ direct.result = NoResult

C2_Witness ==
  /\ GotFailure(direct)
  /\ direct.op = "get_routes"
  /\ direct.result = Raise("ClientResponseError", "request failed")

\* the operations that decode the body with _get_json
JsonOps == Ops \ {"get_departures"}

NotJson(c) == GotText(c) /\ c.got.value.fmt # "json"

\* C3: a step in which a 2xx answer arrives whose body is not JSON ends the
\* call: no sleep and no request follows the answered one (one request and
\* no sleep when it was the first attempt), and get_routes reports it as the
\* ValueError of _get_json, which is none of the failures of _get_text.
C3_DecodeNotRetried ==
  [][(direct.op \in JsonOps /\ GetOk("direct", OtherText))
     => /\ NotJson(direct')
        /\ direct'.io = direct.io
        /\ NumGets(direct'.io) = direct.attempt
        /\ NumSleeps(direct'.io) = direct.attempt - 1
        /\ direct.attempt = 1 => direct'.io = <<EvGet(direct.url)>>
        /\ direct.op = "get_routes" =>
             /\ direct'.result = Raise("ValueError", "Response was not valid JSON")
             /\ direct'.result.exc \notin CaughtErrors]_vars

C3_Witness ==
  /\ direct.op = "get_routes"
  /\ NotJson(direct)
  /\ direct.io = <<EvGet(direct.url)>>
  /\ Raised(direct.result)

\* C4: get_departures on a client with a base URL and a numeric stop id
\* returns a list whatever the upstream does, and the empty list when the
\* fetch failed and when the body is neither JSON nor XML.
C4_DeparturesNeverRaise ==
  (direct.op = "get_departures" /\ Fetched(direct)) =>
    /\ direct.result.kind = "return"
    /\ direct.result.value.t = "list"
    /\ GotFailure(direct) => direct.result.value = PyList(<<>>)
    /\ (GotText(direct) /\ direct.got.value.fmt = "other") => direct.result.value = PyList(<<>>)

C4_Witness ==
  /\ direct.op = "get_departures"
  /\ GotFailure(direct)
  /\ direct.result = Return(PyList(<<>>))

\* the identifiers of Ids that are an integer or all-digit text
NumericIds == {PyInt(12), Str("7")}

\* C5: a step that begins a call of get_routes, get_departures,
\* get_stop_info, get_alerts or get_route_details on a client without a base
\* URL, or with an identifier that is not numeric, also ends it: ValueError,
\* no request, no sleep.
C5_InvalidConfigBeforeIO ==
  [][(direct.pc \notin {"get", "sleep"} /\ direct' # direct /\ direct'.op # "get_agencies"
      /\ (~Truthy(client["direct"]) \/ (direct'.op \in IdOps /\ direct'.arg \notin NumericIds)))
     => /\ Finished(direct')
        /\ direct'.result.kind = "raise"
        /\ direct'.result.exc = "ValueError"
        /\ direct'.io = <<>>
        /\ direct'.got = NoResult]_vars

C5_Witness ==
  /\ Finished(direct)
  /\ direct.op = "get_alerts"
  /\ direct.result = Raise("ValueError", "base_url is required")
  /\ direct.io = <<>>

\* C6: get_routes raises when the fetch failed on every attempt and when the
\* body is not JSON; it returns no routes/stops pair then.
C6_RoutesPropagate ==
  (direct.op = "get_routes" /\ (GotFailure(direct) \/ NotJson(direct))) =>
    /\ direct.result.kind = "raise"
    /\ GotFailure(direct) => direct.result = direct.got

C6_Witness ==
  /\ direct.op = "get_routes"
  /\ GotFailure(direct)
  /\ direct.result.kind = "raise"
  /\ direct.result.exc = "TimeoutError"

\* the JSON value of a body that is JSON
JsonOf(c) == c.got.value.json

\* C7: get_agencies never raises and returns a mapping for every upstream
\* outcome: the empty mapping after a failed fetch, for a body that is not
\* JSON, for JSON that is not an array and for an array with an element that
\* is not a record.
C7_AgenciesAlwaysMapping ==
  (direct.op = "get_agencies" /\ Fetched(direct)) =>
    /\ direct.result.kind = "return"
    /\ direct.result.value.t = "dict"
    /\ (direct.got.kind = "raise" \/ NotJson(direct)) => direct.result.value = PyDict(EmptyMap)
    /\ (GotText(direct) /\ ~NotJson(direct) /\ JsonOf(direct).t # "list")
         => direct.result.value = PyDict(EmptyMap)
    /\ (GotText(direct) /\ ~NotJson(direct) /\ JsonOf(direct) = PyList(<<PyInt(5)>>))
         => direct.result.value = PyDict(EmptyMap)

\* a discovery body that is a JSON object, not an array: the call returns None
C7_NoneReturned ==
  /\ direct.op = "get_agencies"
  /\ GotText(direct)
  /\ ~NotJson(direct)
  /\ JsonOf(direct).t = "dict"
  /\ direct.result = Return(PyNone)

\* the written parts of a generated URL text
PartsOf(text) == CHOOSE p \in UrlParts : UrlText(p) = text

\* an authority record whose Name and RestUrl are text, when present
IsRecord(a) ==
  /\ a.t = "dict"
  /\ \A k \in DOMAIN a.fields : a.fields[k].t = "str"

\* the record carries a Name and a RestUrl, neither empty
Carries(a) ==
  /\ Key("Name") \in DOMAIN a.fields /\ a.fields[Key("Name")].s # <<>>
  /\ Key("RestUrl") \in DOMAIN a.fields /\ a.fields[Key("RestUrl")].s # <<>>

RecordArray(c) ==
  /\ c.op = "get_agencies"
  /\ GotText(c)
  /\ ~NotJson(c)
  /\ JsonOf(c).t = "list"
  /\ \A i \in 1..Len(JsonOf(c).items) : IsRecord(JsonOf(c).items[i])

\* the positions of the records that carry both fields
Carrying(items) == {i \in 1..Len(items) : Carries(items[i])}

NameAt(items, i) == items[i].fields[Key("Name")]

UrlAt(items, i) == PartsOf(items[i].fields[Key("RestUrl")].s)

\* the last record of the array that carries both fields and is named name
LastNamed(items, name) ==
  CHOOSE i \in Carrying(items) :
    /\ NameAt(items, i) = name
    /\ \A j \in Carrying(items) : NameAt(items, j) = name => j <= i

DropRest(segs) ==
  IF segs # <<>> /\ segs[Len(segs)] = "rest" THEN SubSeq(segs, 1, Len(segs) - 1) ELSE segs

\* the URL without fragment, trailing slash and trailing /rest
Stripped(p) ==
  IF p.scheme = "" THEN PathText(DropRest(p.segs))
  ELSE <<p.scheme, "//">> \o (IF p.user THEN <<"usr", "@">> ELSE <<>>) \o <<"host">>
       \o PathText(DropRest(p.segs))

\* C8 as claimed: for every array of records the mapping has a key for
\* exactly the records that carry both a Name and a RestUrl, each value is
\* the RestUrl without fragment, trailing slash and trailing /rest, and of
\* two records with one Name the later gives the value.
C8_ExactlyTheComplete ==
  RecordArray(direct) =>
    LET items == JsonOf(direct).items
    IN /\ direct.result.kind = "return"
       /\ direct.result.value.t = "dict"
       /\ DOMAIN direct.result.value.fields = {NameAt(items, i) : i \in Carrying(items)}
       /\ \A name \in DOMAIN direct.result.value.fields :
            direct.result.value.fields[name] = PyStr(Stripped(UrlAt(items, LastNamed(items, name))))

\* the record's URL passes: http or https without user-info, or a relative
\* URL that is nothing but /rest or a slash
Passes(p) ==
  IF p.scheme = "" THEN DropRest(p.segs) = <<>>
  ELSE p.scheme \in {"http:", "https:"} /\ ~p.user

\* the value stored for a passing URL: trailing slashes go first, then the
\* fragment, then /rest if the text ends with it, then trailing slashes
Stored(p) ==
  IF p.scheme = "" THEN <<>>
  ELSE <<p.scheme, "//", "host">> \o PathText(IF p.frag /\ p.slash THEN p.segs ELSE DropRest(p.segs))

\* C8 amended: when the URL of every record that carries a non-empty Name
\* and RestUrl passes, the mapping has a key for exactly those records, each
\* value is the stored form of the URL of the last record with that Name;
\* when the URL of one of them does not pass, the mapping is empty.
C8_CompleteWhenAllPass ==
  RecordArray(direct) =>
    LET items == JsonOf(direct).items
    IN /\ direct.result.kind = "return"
       /\ direct.result.value.t = "dict"
       /\ IF \A i \in Carrying(items) : Passes(UrlAt(items, i))
          THEN /\ DOMAIN direct.result.value.fields = {NameAt(items, i) : i \in Carrying(items)}
               /\ \A name \in DOMAIN direct.result.value.fields :
                    direct.result.value.fields[name]
                      = PyStr(Stored(UrlAt(items, LastNamed(items, name))))
          ELSE direct.result.value = PyDict(EmptyMap)

\* two records named Metro, the later with another URL, and its URL is the value
C8_Witness ==
  /\ RecordArray(direct)
  /\ Len(JsonOf(direct).items) = 2
  /\ Carrying(JsonOf(direct).items) = {1, 2}
  /\ JsonOf(direct).items[1] # JsonOf(direct).items[2]
  /\ direct.result = Return(PyDict(Str("Metro") :> PyStr(<<"https:", "//", "host", "/", "a">>)))

PollingOps == {"get_stop_info", "get_alerts", "get_route_details"}

\* the body is JSON of a shape the operation does not expect
UnexpectedShape(c) ==
  /\ GotText(c)
  /\ ~NotJson(c)
  /\ CASE c.op = "get_stop_info" -> JsonOf(c).t # "dict"
       [] c.op = "get_alerts" ->
            \/ JsonOf(c).t # "list"
            \/ \E i \in 1..Len(JsonOf(c).items) : JsonOf(c).items[i].t # "dict"
       [] c.op = "get_route_details" ->
            \/ JsonOf(c).t \notin {"list", "dict"}
            \/ JsonOf(c).t = "list" /\ JsonOf(c).items # <<>> /\ JsonOf(c).items[1].t # "dict"
       [] OTHER -> FALSE

\* the text of a numeric identifier
IdText(arg) ==
  CASE arg = PyInt(12) -> <<"1", "2">>
    [] arg = Str("7") -> <<"7">>

\* C9: on a client with a base URL and a numeric identifier, get_stop_info,
\* get_alerts and get_route_details never raise, and when the fetch failed
\* on every attempt, the body is not JSON or the JSON has an unexpected
\* shape, get_stop_info returns the stop id as text and the two others
\* return the empty list.
C9_SuppressToDefault ==
  (direct.op \in PollingOps /\ Fetched(direct)) =>
    /\ direct.result.kind = "return"
    /\ (direct.got.kind = "raise" \/ NotJson(direct) \/ UnexpectedShape(direct)) =>
         direct.result.value
           = IF direct.op = "get_stop_info" THEN PyStr(IdText(direct.arg)) ELSE PyList(<<>>)

C9_Witness ==
  /\ direct.op = "get_stop_info"
  /\ direct.arg = PyInt(12)
  /\ UnexpectedShape(direct)
  /\ direct.result = Return(PyStr(<<"1", "2">>))

\* the parse of a response body by the parser of op, the empty list when the
\* body cannot be parsed
CycleParse(op, text) ==
  LET parsed == CASE op = "get_departures" -> DeparturesFrom(text, json_loads(text))
                  [] op = "get_alerts" -> Then(json_loads(text), LAMBDA data : _parse_alerts_json(data))
                  [] op = "get_route_details" -> Then(json_loads(text), LAMBDA data : RouteMessages(data))
  IN IF Raised(parsed) THEN PyList(<<>>) ELSE parsed.value

\* C10: after every polling cycle of a coordinator that made a request, the
\* update succeeded (no UpdateFailed), the coordinator can poll again, and
\* its data is the empty list when the fetch of that cycle failed and the
\* parse of that cycle's response otherwise, whatever the data was before.
C10_PollingSurvives ==
  \A w \in Coordinators :
    Fetched(call[w]) =>
      /\ coordinator[w].last_update_success
      /\ ENABLED Poll(w)
      /\ call[w].got.kind = "raise" => coordinator[w].data = PyList(<<>>)
      /\ call[w].got.kind = "return" =>
           coordinator[w].data = CycleParse(call[w].op, call[w].got.value)

\* the departures cycle failed on its third attempt and left the empty list,
\* while the alerts coordinator holds the alert of its own cycle
C10_Witness ==
  /\ GotFailure(call["stop"])
  /\ call["stop"].attempt = 3
  /\ coordinator["stop"] = [data |-> PyList(<<>>), last_update_success |-> TRUE]
  /\ GotText(call["alerts"])
  /\ coordinator["alerts"].data = PyList(<<AlertOf(Message(1))>>)

\* the requests and sleeps of a call alone that is answered, or gives up,
\* on its n-th attempt
ScheduleAlone(url, n) ==
  CASE n = 1 -> <<EvGet(url)>>
    [] n = 2 -> <<EvGet(url), EvSleep(5), EvGet(url)>>
    [] n = 3 -> <<EvGet(url), EvSleep(5), EvGet(url), EvSleep(10), EvGet(url)>>

\* C11: of two coroutines calling one client, a step of one leaves the
\* other's call (attempt counter, delay, requests made, result) and the
\* client as they were, and a call that ends has made the requests and
\* sleeps of a call alone with its own number of attempts and returns what
\* its own responses give: the empty list after its own third failure, the
\* parse of its own answer otherwise.
C11_CallsIndependent ==
  [][\A w \in DirectCallers :
       call'[w] # call[w] =>
         /\ \A v \in Callers \ {w} : call'[v] = call[v]
         /\ client' = client
         /\ call'[w].pc \in {"get", "sleep"} =>
              call'[w].delay = IF call'[w].attempt = 1 THEN 5 ELSE IF call'[w].attempt = 2 THEN 10 ELSE 20
         /\ Fetched(call'[w]) =>
              /\ call'[w].io = ScheduleAlone(call'[w].url, call'[w].attempt)
              /\ call'[w].result =
                   Return(IF call'[w].got.kind = "raise" THEN PyList(<<>>)
                          ELSE CycleParse(call'[w].op, call'[w].got.value))]_vars

\* the same operation for two stops, in flight together: one sleeps before
\* its third attempt while the other is on its first
C11_Witness ==
  /\ call["direct"].op = "get_departures" /\ call["direct"].arg = Str("7")
  /\ call["direct"].pc = "sleep" /\ call["direct"].attempt = 2 /\ call["direct"].delay = 10
  /\ call["other"].op = "get_departures" /\ call["other"].arg = PyInt(12)
  /\ call["other"].pc = "get" /\ call["other"].attempt = 1 /\ call["other"].delay = 5

RECURSIVE Flat(_)
\* the concatenation of a sequence of sequences
Flat(seqs) == IF seqs = <<>> THEN <<>> ELSE Head(seqs) \o Flat(Tail(seqs))

\* the value of a field of a JSON object, None when it has no such field
Field(obj, name) == IF Key(name) \in DOMAIN obj.fields THEN obj.fields[Key(name)] ELSE PyNone

\* the items of a field that is a list, none otherwise
Items(obj, name) == IF Field(obj, name).t = "list" THEN Field(obj, name).items ELSE <<>>

\* the route directions of a JSON payload, in payload order
JsonDirections(data) ==
  LET entries == IF data.t = "list" THEN data.items ELSE <<data>>
  IN Flat([i \in 1..Len(entries) |-> Items(entries[i], "RouteDirections")])

\* the <<direction, departure>> pairs of the directions that are not flagged
\* done, in payload order
JsonKept(data) ==
  LET dirs == JsonDirections(data)
  IN Flat([i \in 1..Len(dirs) |->
             IF Field(dirs[i], "IsDone") = PyBool(TRUE) THEN <<>>
             ELSE [j \in 1..Len(Items(dirs[i], "Departures")) |->
                     <<dirs[i], Items(dirs[i], "Departures")[j]>>]])

\* a field that is set: present, not null and not empty
IsSet(obj, name) == Field(obj, name) \notin {PyNone, PyStr(<<>>)}

\* C12: the list _parse_departures_json returns has one record per departure
\* of the route directions that are not flagged done, in payload order (a
\* direction flagged done or without departures gives none): the record's
\* route id is the text of the direction's RouteId, its direction the
\* DirectionCode, its status the departure's StopStatusReportLabel and its
\* eta the departure's ETALocalTime, or STALocalTime when that is not set.
C12_JsonDepartureFiltering ==
  \A w \in DirectCallers :
    (Finished(call[w]) /\ call[w].op = "_parse_departures_json") =>
      LET kept == JsonKept(call[w].arg)
      IN /\ call[w].result.kind = "return"
         /\ call[w].result.value.t = "list"
         /\ Len(call[w].result.value.items) = Len(kept)
         /\ \A i \in 1..Len(kept) :
              LET out == call[w].result.value.items[i].fields
                  route_id == Field(kept[i][1], "RouteId")
              IN /\ out[Key("route_id")] =
                      IF route_id = PyNone THEN Str("None") ELSE PyStr(IntToText(route_id.n))
                 /\ out[Key("direction")] = Field(kept[i][1], "DirectionCode")
                 /\ out[Key("status")] = Field(kept[i][2], "StopStatusReportLabel")
                 /\ out[Key("eta")] =
                      IF IsSet(kept[i][2], "ETALocalTime") THEN Field(kept[i][2], "ETALocalTime")
                      ELSE Field(kept[i][2], "STALocalTime")

\* two directions, the first done, the second with two departures: the two
\* of the second come out in order
C12_Witness ==
  /\ Finished(direct)
  /\ direct.op = "_parse_departures_json"
  /\ Len(JsonDirections(direct.arg)) = 2
  /\ Field(JsonDirections(direct.arg)[1], "IsDone") = PyBool(TRUE)
  /\ Items(JsonDirections(direct.arg)[1], "Departures") # <<>>
  /\ Len(direct.result.value.items) = 2
  /\ direct.result.value.items[1].fields[Key("is_realtime")] = PyBool(TRUE)
  /\ direct.result.value.items[2].fields[Key("is_realtime")] = PyBool(FALSE)

other == call["other"]

\* the two callers were given one payload, as JSON and as XML, and both
\* parsers have returned
BothParsed ==
  /\ Finished(direct) /\ direct.op = "_parse_departures_json"
  /\ Finished(other) /\ other.op = "_parse_departures_xml"

\* C13: for a payload written as JSON and as XML, _parse_departures_json and
\* _parse_departures_xml return the same list, record for record and field
\* for field, and is_realtime is false exactly for the departures whose mode
\* is zero (true when the mode is another value and when there is none).
C13_JsonXmlEquivalence ==
  BothParsed =>
    /\ direct.result.kind = "return"
    /\ other.result = direct.result
    /\ Len(other.result.value.items) = Len(JsonKept(direct.arg))
    /\ \A i \in 1..Len(JsonKept(direct.arg)) :
         /\ DOMAIN other.result.value.items[i].fields =
              {Key("route_id"), Key("direction"), Key("destination"), Key("eta"), Key("status"),
               Key("is_realtime")}
         /\ other.result.value.items[i].fields[Key("is_realtime")] =
              PyBool(Field(JsonKept(direct.arg)[i][2], "Mode") # PyInt(0))

\* a payload with a departure of mode zero and a departure without mode
C13_Witness ==
  /\ BothParsed
  /\ other.result = direct.result
  /\ Len(direct.result.value.items) = 2
  /\ Field(JsonKept(direct.arg)[1][2], "Mode") = PyInt(0)
  /\ direct.result.value.items[1].fields[Key("is_realtime")] = PyBool(FALSE)
  /\ ~IsSet(JsonKept(direct.arg)[2][2], "Mode")
  /\ direct.result.value.items[2].fields[Key("is_realtime")] = PyBool(TRUE)

\* _parse_routes_json has returned for a list of routes
RoutesParsed == Finished(direct) /\ direct.op = "_parse_routes_json" /\ direct.arg.t = "list"

\* the routes mapping (label to route id) and the stops mapping (route id
\* to stop set) returned
RoutesOf(c) == c.result.value.items[1].fields

StopsOf(c) == c.result.value.items[2].fields

Values(f) == {f[k] : k \in DOMAIN f}

\* the route id of a listed route as text
RouteIdText(route) ==
  IF Field(route, "RouteId") = PyNone THEN Str("None")
  ELSE PyStr(IntToText(Field(route, "RouteId").n))

HasField(obj, name) == Key(name) \in DOMAIN obj.fields

\* C14 as claimed: a route with IsVisible false is in neither mapping, a
\* route without an IsVisible field is in both.
C14_VisibilityBoth ==
  RoutesParsed =>
    /\ direct.result.kind = "return"
    /\ \A i \in 1..Len(direct.arg.items) :
         LET route == direct.arg.items[i]
         IN /\ Field(route, "IsVisible") = PyBool(FALSE) =>
                 /\ RouteIdText(route) \notin Values(RoutesOf(direct))
                 /\ RouteIdText(route) \notin DOMAIN StopsOf(direct)
            /\ ~HasField(route, "IsVisible") =>
                 /\ RouteIdText(route) \in Values(RoutesOf(direct))
                 /\ RouteIdText(route) \in DOMAIN StopsOf(direct)

\* two listed routes get one label: the same abbreviation and long name
SameLabel(r1, r2) ==
  /\ Field(r1, "RouteAbbreviation") = Field(r2, "RouteAbbreviation")
  /\ Field(r1, "ShortName") = Field(r2, "ShortName")
  /\ Field(r1, "LongName") = Field(r2, "LongName")

\* the last route of the list that is not hidden and has the label of route
\* i is a route with another id
LabelTaken(routes, i) ==
  \E j \in (i + 1)..Len(routes) :
    /\ Field(routes[j], "IsVisible") # PyBool(FALSE)
    /\ SameLabel(routes[i], routes[j])
    /\ RouteIdText(routes[j]) # RouteIdText(routes[i])
    /\ \A k \in (j + 1)..Len(routes) :
         (Field(routes[k], "IsVisible") # PyBool(FALSE) /\ SameLabel(routes[i], routes[k]))
           => RouteIdText(routes[k]) # RouteIdText(routes[i])

\* C14 amended: a route with IsVisible false is in neither mapping; a route
\* without an IsVisible field is a key of the stops mapping, and its id is a
\* value of the routes mapping unless the last route of the list that is not
\* hidden and has the same label has another id, which then holds the label.
C14_VisibilityUnlessRelabelled ==
  RoutesParsed =>
    /\ direct.result.kind = "return"
    /\ \A i \in 1..Len(direct.arg.items) :
         LET route == direct.arg.items[i]
         IN /\ Field(route, "IsVisible") = PyBool(FALSE) =>
                 /\ RouteIdText(route) \notin Values(RoutesOf(direct))
                 /\ RouteIdText(route) \notin DOMAIN StopsOf(direct)
            /\ ~HasField(route, "IsVisible") =>
                 /\ RouteIdText(route) \in DOMAIN StopsOf(direct)
                 /\ RouteIdText(route) \in Values(RoutesOf(direct))
                      <=> ~LabelTaken(direct.arg.items, i)

\* a hidden route and a route without IsVisible: only the second is mapped
C14_Witness ==
  /\ RoutesParsed
  /\ Len(direct.arg.items) = 2
  /\ Field(direct.arg.items[1], "IsVisible") = PyBool(FALSE)
  /\ ~HasField(direct.arg.items[2], "IsVisible")
  /\ RoutesOf(direct) = (PyStr(<<"Loop">>) :> PyStr(<<"1", "2">>))
  /\ DOMAIN StopsOf(direct) = {PyStr(<<"1", "2">>)}

\* the Departure elements of the directions of an XML payload that are not
\* flagged done, in payload order
XmlKept(root) ==
  LET entries == IF root.tag = "ArrayOfStopDeparture" THEN FindAll(root, "StopDeparture")
                 ELSE <<root>>
      dirs == Flat([i \in 1..Len(entries) |->
                      IF Has(entries[i], "RouteDirections")
                      THEN FindAll(Find(entries[i], "RouteDirections"), "RouteDirection")
                      ELSE <<>>])
  IN Flat([i \in 1..Len(dirs) |->
             IF FindText(dirs[i], "IsDone") = Str("true") \/ ~Has(dirs[i], "Departures") THEN <<>>
             ELSE FindAll(Find(dirs[i], "Departures"), "Departure")])

\* the destination the fallback rule gives a JSON departure
JsonWanted(dep) ==
  LET trip == Field(dep, "Trip")
  IN IF trip.t = "dict" /\ IsSet(trip, "InternetServiceDesc") THEN Field(trip, "InternetServiceDesc")
     ELSE IF trip.t = "dict" /\ IsSet(trip, "InternalSignDesc") THEN Field(trip, "InternalSignDesc")
     ELSE Str("Unknown")

XmlIsSet(e, tag) == FindText(e, tag) \notin {PyNone, PyStr(<<>>)}

\* the destination the fallback rule gives a Departure element
XmlWanted(dep) ==
  IF Has(dep, "Trip") /\ XmlIsSet(Find(dep, "Trip"), "InternetServiceDesc")
  THEN FindText(Find(dep, "Trip"), "InternetServiceDesc")
  ELSE IF Has(dep, "Trip") /\ XmlIsSet(Find(dep, "Trip"), "InternalSignDesc")
  THEN FindText(Find(dep, "Trip"), "InternalSignDesc")
  ELSE Str("Unknown")

Destination(record) == record.fields[Key("destination")]

\* C15: in the lists of both parsers the destination of a departure is its
\* trip's InternetServiceDesc when that is set, otherwise the trip's
\* InternalSignDesc when that is set, otherwise "Unknown" (also without a
\* Trip); it is never None and never empty.
C15_DestinationFallback ==
  \A w \in DirectCallers :
    /\ (Finished(call[w]) /\ call[w].op = "_parse_departures_json") =>
         /\ call[w].result.kind = "return"
         /\ Len(call[w].result.value.items) = Len(JsonKept(call[w].arg))
         /\ \A i \in 1..Len(JsonKept(call[w].arg)) :
              /\ Destination(call[w].result.value.items[i]) = JsonWanted(JsonKept(call[w].arg)[i][2])
              /\ Destination(call[w].result.value.items[i]) \notin {PyNone, PyStr(<<>>)}
    /\ (Finished(call[w]) /\ call[w].op = "_parse_departures_xml") =>
         /\ call[w].result.kind = "return"
         /\ Len(call[w].result.value.items) = Len(XmlKept(call[w].arg))
         /\ \A i \in 1..Len(XmlKept(call[w].arg)) :
              /\ Destination(call[w].result.value.items[i]) = XmlWanted(XmlKept(call[w].arg)[i])
              /\ Destination(call[w].result.value.items[i]) \notin {PyNone, PyStr(<<>>)}

\* both parsers have returned a departure with both descriptions, which takes
\* InternetServiceDesc, and one with InternalSignDesc only, which takes that
C15_Witness ==
  /\ BothParsed
  /\ Len(XmlKept(other.arg)) = 2
  /\ XmlIsSet(Find(XmlKept(other.arg)[1], "Trip"), "InternetServiceDesc")
  /\ XmlIsSet(Find(XmlKept(other.arg)[1], "Trip"), "InternalSignDesc")
  /\ ~Has(Find(XmlKept(other.arg)[2], "Trip"), "InternetServiceDesc")
  /\ Destination(other.result.value.items[1]) = Str("Downtown")
  /\ Destination(other.result.value.items[2]) = Str("DT")
  /\ Destination(direct.result.value.items[1]) = Str("Downtown")
  /\ Destination(direct.result.value.items[2]) = Str("DT")

\* a departure without a Trip and one whose descriptions are both empty or
\* missing come out as Unknown
C15_UnknownWitness ==
  /\ BothParsed
  /\ Len(XmlKept(other.arg)) = 1
  /\ ~Has(XmlKept(other.arg)[1], "Trip")
  /\ Destination(other.result.value.items[1]) = Str("Unknown")
  /\ Destination(direct.result.value.items[1]) = Str("Unknown")

\* _clean_base_url has returned or raised for the first caller
Cleaned == Finished(direct) /\ direct.op = "_clean_base_url"

\* the first caller's output has been cleaned again by the other caller
CleanedAgain == Cleaned /\ Finished(other) /\ other.op = "_clean_base_url"

Tokens(s) == {s[i] : i \in 1..Len(s)}

\* a written URL with scheme http or https, no user-info and no fragment
ValidUrlText(v) ==
  /\ v.t = "str"
  /\ v.s # <<>>
  /\ v.s[1] \in {"http:", "https:"}
  /\ "@" \notin Tokens(v.s)
  /\ "#" \notin Tokens(v.s)

C17_EmptyWitness ==
  /\ Cleaned
  /\ direct.arg = PyStr(<<>>)
  /\ direct.result = Return(PyNone)

\* _validate_numeric_id has returned or raised for caller w
Validated(w) == Finished(call[w]) /\ call[w].op = "_validate_numeric_id"

\* the value and the field name it was given
ValueOf(c) == c.arg.items[1]

FieldOf(c) == c.arg.items[2].s[1]

\* a text of decimal digits only
DecimalText(v) == v.t = "str" /\ v.s # <<>> /\ Tokens(v.s) \subseteq Digits

\* C18 as claimed: an int and the all-digit text of the same number give the
\* same text; every other value (a text with a non-digit character, the
\* empty text, a value that is neither int nor text) raises an error whose
\* message names the field; every returned value is made of decimal digits
\* only.
C18_NumericIdDigitsOnly ==
  /\ (Validated("direct") /\ Validated("other")) =>
       /\ direct.result = other.result
       /\ direct.result = Return(ValueOf(other))
  /\ \A w \in DirectCallers :
       Validated(w) =>
         /\ (ValueOf(call[w]).t # "int" /\ ~DecimalText(ValueOf(call[w]))) =>
              /\ call[w].result.kind = "raise"
              /\ call[w].result.msg = FieldOf(call[w]) \o " must be a numeric id"
         /\ call[w].result.kind = "return" => DecimalText(call[w].result.value)

\* a value is returned that is not made of decimal digits only: the text of
\* a negative int or of a bool
C18_NonDigitReturned ==
  /\ Validated("direct")
  /\ ValueOf(direct) \in {PyInt(0 - 5), PyBool(TRUE)}
  /\ direct.result \in {Return(PyStr(<<"-", "5">>)), Return(Str("True"))}

\* a listed route that is not hidden and has no identifier: RouteId is
\* missing or null
Unidentified(route) ==
  /\ Field(route, "IsVisible") # PyBool(FALSE)
  /\ Field(route, "RouteId") = PyNone

\* C19 as claimed: a visible route whose RouteId is missing or null is
\* skipped: the routes mapping has no entry for it and the stops mapping no
\* key.
C19_UnidentifiedSkipped ==
  RoutesParsed =>
    \A i \in 1..Len(direct.arg.items) :
      Unidentified(direct.arg.items[i]) =>
        /\ RouteIdText(direct.arg.items[i]) \notin Values(RoutesOf(direct))
        /\ RouteIdText(direct.arg.items[i]) \notin DOMAIN StopsOf(direct)

\* the list of one route without RouteId gives the route id "None"
C19_NoneMapped ==
  /\ RoutesParsed
  /\ direct.arg.items = <<PyDict(Key("LongName") :> Str("Ghost"))>>
  /\ RoutesOf(direct) = (Str("Ghost") :> Str("None"))
  /\ StopsOf(direct) = (Str("None") :> PyDict(EmptyMap))

\* C20: after _parse_routes_json of a list of routes, also one in which two
\* kept routes have the same label, every route id that is a value of the
\* routes mapping is a key of the stops mapping, and a kept route without
\* stops has the empty stop set.
C20_RoutesStopsConsistent ==
  RoutesParsed =>
    /\ direct.result.kind = "return"
    /\ Values(RoutesOf(direct)) \subseteq DOMAIN StopsOf(direct)
    /\ \A i \in 1..Len(direct.arg.items) :
         (/\ Field(direct.arg.items[i], "IsVisible") # PyBool(FALSE)
          /\ Items(direct.arg.items[i], "Stops") = <<>>) =>
           /\ RouteIdText(direct.arg.items[i]) \in DOMAIN StopsOf(direct)
           /\ StopsOf(direct)[RouteIdText(direct.arg.items[i])] = PyDict(EmptyMap)

\* two kept routes with one label, the second without stops: the label maps
\* to the second, both are keys of the stops mapping
C20_Witness ==
  /\ RoutesParsed
  /\ Len(direct.arg.items) = 2
  /\ SameLabel(direct.arg.items[1], direct.arg.items[2])
  /\ Items(direct.arg.items[1], "Stops") # <<>>
  /\ Items(direct.arg.items[2], "Stops") = <<>>
  /\ Values(RoutesOf(direct)) = {PyStr(<<"1", "1">>)}
  /\ DOMAIN StopsOf(direct) = {PyStr(<<"1", "0">>), PyStr(<<"1", "1">>)}
  /\ StopsOf(direct)[PyStr(<<"1", "1">>)] = PyDict(EmptyMap)
  /\ StopsOf(direct)[PyStr(<<"1", "0">>)] # PyDict(EmptyMap)

\* the stop set returned for a listed route
StopSetOf(c, route) == StopsOf(c)[RouteIdText(route)].fields

\* the label "{stopName} ({stopId})" of a stop that has both
StopLabelOf(stop) ==
  PyStr(Field(stop, "Name").s \o <<" (">> \o IntToText(Field(stop, "StopId").n) \o <<")">>)

\* C21: of the stops of a kept route, a stop with neither StopId nor Name is
\* skipped (the stop set has no entry made of two missing values), and a stop
\* with both is in the route's stop set under the label "Name (StopId)",
\* mapped to the text of its StopId.
C21_StopSkipRule ==
  RoutesParsed =>
    \A i \in 1..Len(direct.arg.items) :
      Field(direct.arg.items[i], "IsVisible") # PyBool(FALSE) =>
        /\ RouteIdText(direct.arg.items[i]) \in DOMAIN StopsOf(direct)
        /\ \A j \in 1..Len(Items(direct.arg.items[i], "Stops")) :
             LET stop == Items(direct.arg.items[i], "Stops")[j]
                 stop_set == StopSetOf(direct, direct.arg.items[i])
             IN /\ (Field(stop, "StopId") = PyNone /\ Field(stop, "Name") = PyNone) =>
                     /\ PyStr(<<"None", " (", "None", ")">>) \notin DOMAIN stop_set
                     /\ PyStr(<<" (", "None", ")">>) \notin DOMAIN stop_set
                /\ (Field(stop, "StopId") # PyNone /\ IsSet(stop, "Name")) =>
                     /\ StopLabelOf(stop) \in DOMAIN stop_set
                     /\ stop_set[StopLabelOf(stop)] = PyStr(IntToText(Field(stop, "StopId").n))

\* a route with a stop that has neither id nor name and a stop that has
\* both: the second is in the stop set as "Elm St (9)", the first is not
C21_Witness ==
  /\ RoutesParsed
  /\ Len(direct.arg.items) = 1
  /\ Len(Items(direct.arg.items[1], "Stops")) = 4
  /\ Items(direct.arg.items[1], "Stops")[1] = PyDict(EmptyMap)
  /\ IsSet(Items(direct.arg.items[1], "Stops")[3], "Name")
  /\ StopSetOf(direct, direct.arg.items[1])[PyStr(<<"Elm St", " (", "9", ")">>)] = Str("9")
  /\ \A k \in DOMAIN StopSetOf(direct, direct.arg.items[1]) : k.s[1] = "Elm St"

\* the client call the flow waited for in handler has ended
FlowGot(handler) == flow.awaiting = handler /\ direct.pc = "done"

\* get_routes raised or returned an empty routes mapping
NoRoutes(r) == Raised(r) \/ ~Truthy(r.value.items[1])

\* C22: in every step of a setup flow, the user step that gets no agencies
\* from discovery goes to the manual step, the route step whose route
\* listing raises or gives an empty routes mapping goes to the manual step,
\* and no agency or route form is shown without an agency or route to choose.
C22_FallbackToManual ==
  [][/\ (FlowGot("user") /\ ~Truthy(direct.result.value) /\ flow' # flow) =>
          (flow'.step = "manual" /\ flow'.awaiting = "")
     /\ (FlowGot("route") /\ NoRoutes(direct.result) /\ flow' # flow) =>
          (flow'.step = "manual" /\ flow'.awaiting = "")
     /\ flow'.step = "user" => flow'.choices \ {MANUAL_ENTRY} # {}
     /\ flow'.step = "route" => flow'.choices # {}]_vars

\* an agency was selected, its route listing failed on every attempt, and the
\* manual form is shown
C22_Witness ==
  /\ flow.step = "manual"
  /\ flow.selected_agency = Str("Metro")
  /\ direct.op = "get_routes"
  /\ Raised(direct.result)
  /\ NumGets(direct.io) = tries

\* discovery gave no agencies and the manual form is shown
C22_DiscoveryWitness ==
  /\ flow.step = "manual"
  /\ direct.op = "get_agencies"
  /\ Finished(direct)
  /\ direct.result.value \in {PyDict(EmptyMap), PyNone}

\* the flow has created an entry in its stop step (the entries of the manual
\* step carry no route)
StopStepEntry(f) == f.step = "create_entry" /\ f.data.route_id # PyNone

\* the routes and stops mappings the flow's last client call fetched, when
\* that call was get_routes on base_url
FetchedFor(c, base_url) ==
  /\ Finished(c)
  /\ c.op = "get_routes"
  /\ c.result.kind = "return"
  /\ c.url = Endpoint("get_routes", base_url.s, <<>>)

\* C23: every entry the stop step creates has the base URL that discovery
\* gave for the selected agency, a route id that is a value of the routes
\* mapping fetched for that base URL, and a stop id of that route's stop set
\* in the fetched stops mapping; a route label or stop label that is not
\* offered creates no entry and shows the same form again.
C23_SelectionInvariant ==
  [][/\ StopStepEntry(flow') =>
          /\ flow'.data.agency_name \in DOMAIN flow'.found_agencies.fields
          /\ flow'.data.base_url = flow'.found_agencies.fields[flow'.data.agency_name]
          /\ FetchedFor(direct', flow'.data.base_url)
          /\ flow'.data.route_id \in Values(RoutesOf(direct'))
          /\ flow'.data.route_id \in DOMAIN StopsOf(direct')
          /\ flow'.data.stop_id \in Values(StopsOf(direct')[flow'.data.route_id].fields)
          /\ entry' = [base_url |-> flow'.data.base_url, stop_id |-> flow'.data.stop_id,
                       route_id |-> flow'.data.route_id]
     /\ (NotOffered \notin flow.choices /\ SubmitRoute(NotOffered)) =>
          /\ flow'.step = "route"
          /\ flow'.choices = flow.choices
          /\ flow'.data = PyNone
          /\ entry' = entry
     /\ (NotOffered \notin flow.choices
         /\ \E configured \in BOOLEAN : SubmitStop(NotOffered, configured)) =>
          /\ flow'.step = "stop"
          /\ flow'.choices = flow.choices
          /\ flow'.data = PyNone
          /\ entry' = entry]_vars

\* agency Metro, route Loop and stop "Elm St (9)" were selected: the entry
\* has Metro's URL, route id 12 and stop id 9
C23_Witness ==
  /\ StopStepEntry(flow)
  /\ flow.data = [agency_name |-> Str("Metro"), base_url |-> PyStr(<<"http:", "//", "host">>),
                  stop_id |-> Str("9"), stop_name |-> Str("Elm St"),
                  route_id |-> PyStr(<<"1", "2">>), route_name |-> Str("Loop")]
  /\ entry.stop_id = Str("9")

\* the route form is shown again with the error "unknown"
C23_RejectedWitness ==
  /\ flow.step = "route"
  /\ flow.errors = "unknown"
  /\ flow.data = PyNone

\* the flow has created an entry in its manual step
ManualStepEntry(f) == f.step = "create_entry" /\ f.data.route_id = PyNone

\* the client call failed: it raised, or its request failed on every attempt
ConnectionFailed(c) ==
  \/ Raised(c.result)
  \/ (Raised(c.got) /\ NumGets(c.io) = tries)

\* C24 as claimed: the manual step creates an entry only when get_departures
\* and get_stop_info both ended without failure, and when the connection
\* test get_departures fails, also when the server was not reached on any
\* attempt, the step creates no entry and shows the manual form again with
\* the error "cannot_connect".
C24_ConnectionTested ==
  [][/\ ManualStepEntry(flow') =>
          /\ direct'.op = "get_stop_info"
          /\ ~Raised(direct'.result)
     /\ (FlowGot("manual.get_departures") /\ ConnectionFailed(direct) /\ flow' # flow) =>
          /\ flow'.step = "manual"
          /\ flow'.awaiting = ""
          /\ flow'.errors = "cannot_connect"
          /\ entry' = entry]_vars

\* an entry was created although the requests to the entered server failed
\* on every attempt: the stop name is the stop id that get_stop_info falls
\* back to
C24_EntryWithoutConnection ==
  /\ ManualStepEntry(flow)
  /\ direct.op = "get_stop_info"
  /\ Raised(direct.got)
  /\ NumGets(direct.io) = tries
  /\ flow.data.stop_name = flow.data.stop_id
  /\ entry.base_url = PyStr(<<"http:", "//", "host">>)

====
